---- MODULE Spec2Model ----
(***************************************************************************)
(* A model of judgarr's punishment decision engine and size aggregation.   *)
(*                                                                         *)
(* Byte quantities are counted in units of 2^20 bytes so that the default  *)
(* thresholds (up to 1500 * 2^30 bytes) stay inside the checker's integer  *)
(* range; Python integers are unbounded, so no width is modelled.          *)
(* Time is a logical clock: every datetime.now() read returns the value of *)
(* `now`, and the clock is strictly later at the next operation.           *)
(***************************************************************************)
EXTENDS Integers, Sequences, FiniteSets, TLC

VARIABLES
    thresholds,     \* PunishmentCalculator.thresholds: level -> threshold (units)
    calc_total,     \* determine_punishment_level: argument total_data_bytes
    calc_current,   \* determine_punishment_level: argument current_level
    calc_result,    \* determine_punishment_level: <<returned level>>, <<>> before the call
    punishments,    \* table punishments: sequence of rows, id = position
    user_stats,     \* table user_stats: user_id -> row or NoRow
    db_requests,    \* table requests: sequence of rows, id = position
    now,            \* the wall clock read by datetime.now()
    last,           \* the most recent call on the store: operation and arguments
    tasks,          \* concurrent add_punishment calls: task -> position and locals
    agg,            \* calculate_user_requests_size: position, locals and result
    corr_cache,     \* MediaCorrelationService._cache: tmdb_id -> tvdb_id
    lookups,        \* get_tv/movie_identifiers calls in flight: caller -> position and locals
    pg,             \* get_all_user_requests: position, arguments, locals and result
    broker,         \* the broker's requests of the user, and its reply format
    status          \* the UserStatus last built, and the values its properties gave

vars == <<thresholds, calc_total, calc_current, calc_result,
          punishments, user_stats, db_requests, now, last, tasks, agg, corr_cache,
          lookups,
          pg, broker, status>>

calcVars == <<calc_total, calc_current, calc_result>>
aggVars == <<agg, corr_cache, lookups>>
pageVars == <<pg, broker>>
dbVars == <<punishments, user_stats, db_requests, now, last, tasks, aggVars, pageVars,
           status>>

\* what the sequential calls on the store leave alone
storeIdle == <<thresholds, calcVars, db_requests, tasks, aggVars, pageVars, status>>

----------------------------------------------------------------------------
(* Punishment levels (core/punishments/levels.py) *)

NONE == 0
WARNING == 1
MILD == 2
SEVERE == 3
MAXIMUM == 4

PunishmentLevel == {NONE, WARNING, MILD, SEVERE, MAXIMUM}

\* an absent Optional[PunishmentLevel] (Python's None)
NoLevel == 0 - 1

\* a NULL id or an absent Optional[UserPunishment]
NoId == 0

\* the history record before any call on the store
NoCall == [op |-> "none", user |-> "", created |-> FALSE]

\* calculate_user_requests_size before its first call
IdleAgg == [pc |-> "idle", requests |-> <<>>, total_size |-> 0,
            processed |-> <<>>, truth |-> <<>>]

\* an absent Optional[str] reason
NoReason == "None"

\* a date argument that is None
NoDate == 0 - 1

\* get_all_user_requests not called, and no broker data
IdlePages == [pc |-> "idle", start_date |-> NoDate, end_date |-> NoDate, page |-> 1,
              all_requests |-> <<>>, issued |-> <<>>, completed |-> <<>>]
IdleLookup == [pc |-> "idle", kind |-> "", tmdb_id |-> 0, upstream |-> FALSE,
               ok |-> FALSE, found |-> FALSE, tvdb_id |-> 0]
\* the callers of the correlation service
MaxCallers == 2
Callers == 1 .. MaxCallers
\* no call was made yet; written lists the cache writes in their order
IdleLookups == [calls |-> [c \in Callers |-> IdleLookup], written |-> <<>>, started |-> 0]
NoBroker == [items |-> <<>>, pageSize |-> 0]

\* no UserStatus has been built
NoStatus == [pc |-> "none", current_punishment |-> <<>>, read_at |-> 0,
             is_punished |-> <<>>, remaining_cooldown_days |-> <<>>,
             current_request_limit |-> <<>>, users |-> {}]

\* insertion order of the calculator's dictionaries
LevelOrder == <<WARNING, MILD, SEVERE, MAXIMUM>>

----------------------------------------------------------------------------
(* Configuration (config/models/punishment.py) *)

\* bytes_per_gb, in units of 2^20 bytes
BytesPerGB == 1024

GB(n) == n * BytesPerGB

DefaultThresholdsGB == (WARNING :> 500) @@ (MILD :> 750) @@ (SEVERE :> 1000) @@ (MAXIMUM :> 1500)

DefaultCooldowns == (WARNING :> 3) @@ (MILD :> 5) @@ (SEVERE :> 7) @@ (MAXIMUM :> 14)

DefaultRequestLimits == (WARNING :> 0) @@ (MILD :> (0 - 5)) @@ (SEVERE :> (0 - 10)) @@ (MAXIMUM :> (0 - 15))

\* ThresholdsConfig.validate_threshold: every threshold is positive
ValidThresholds(cfg) == \A l \in DOMAIN cfg : cfg[l] > 0

\* PunishmentCalculator.__init__: GB thresholds converted to bytes
ThresholdsInBytes(cfg) == [l \in DOMAIN cfg |-> GB(cfg[l])]

----------------------------------------------------------------------------
(* Bounds of the model *)

\* threshold configurations tried besides the default: one that is not
\* ascending in the level and one with equal thresholds
ThresholdConfigs ==
    { DefaultThresholdsGB,
      (WARNING :> 800) @@ (MILD :> 600) @@ (SEVERE :> 1000) @@ (MAXIMUM :> 900),
      (WARNING :> 500) @@ (MILD :> 500) @@ (SEVERE :> 1000) @@ (MAXIMUM :> 1000) }

\* window usages tried by the calculator specification
UsageSamples ==
    { 0, 1, GB(500) - 1, GB(500), GB(600), GB(750) - 1, GB(750), GB(800),
      GB(900), GB(1000) - 1, GB(1000), GB(1100), GB(1500) - 1, GB(1500),
      GB(2000) }

----------------------------------------------------------------------------
(* PunishmentCalculator (core/punishments/calculator.py) *)

\* the loop of determine_punishment_level: the last level, in dictionary
\* order, whose threshold the usage reaches
RECURSIVE HighestExceeded(_, _, _, _)
\* mutant: the first threshold reached wins instead of the last
HighestExceeded_First(th, total, i, new_level) ==
    IF i > Len(LevelOrder) THEN new_level
    ELSE IF total >= th[LevelOrder[i]] /\ new_level = NONE
         THEN HighestExceeded(th, total, i + 1, LevelOrder[i])
         ELSE HighestExceeded(th, total, i + 1, new_level)

HighestExceeded(th, total, i, new_level) ==
    IF i > Len(LevelOrder) THEN new_level
    ELSE IF total >= th[LevelOrder[i]]
         THEN HighestExceeded(th, total, i + 1, LevelOrder[i])
         ELSE HighestExceeded(th, total, i + 1, new_level)

\* mutant: the "never decrease" test is missing
DeterminePunishmentLevel_NoKeep(th, total_data_bytes, current_level) ==
    IF current_level = MAXIMUM THEN MAXIMUM
    ELSE HighestExceeded(th, total_data_bytes, 1, NONE)

\* mutant: the current level is ignored altogether
DeterminePunishmentLevel_IgnoreCurrent(th, total_data_bytes, current_level) ==
    HighestExceeded(th, total_data_bytes, 1, NONE)

DeterminePunishmentLevel(th, total_data_bytes, current_level) ==
    IF current_level = MAXIMUM THEN MAXIMUM
    ELSE LET new_level == HighestExceeded(th, total_data_bytes, 1, NONE)
         IN  IF current_level # NoLevel /\ current_level # NONE /\ current_level > new_level
             THEN current_level
             ELSE new_level

----------------------------------------------------------------------------
(* Specification of the calculator alone *)

InitCalc ==
    /\ thresholds \in {ThresholdsInBytes(cfg) : cfg \in {c \in ThresholdConfigs : ValidThresholds(c)}}
    /\ calc_total \in UsageSamples
    /\ calc_current \in PunishmentLevel \cup {NoLevel}
    /\ calc_result = <<>>
    /\ punishments = <<>>
    /\ user_stats = <<>>
    /\ db_requests = <<>>
    /\ now = 0
    /\ last = NoCall
    /\ tasks = <<>>
    /\ agg = IdleAgg
    /\ corr_cache = <<>>
    /\ lookups = IdleLookups
    /\ pg = IdlePages
    /\ broker = NoBroker
    /\ status = NoStatus

\* one call of determine_punishment_level on the drawn arguments
Determine ==
    /\ calc_result = <<>>
    /\ calc_result' = <<DeterminePunishmentLevel(thresholds, calc_total, calc_current)>>
    /\ UNCHANGED <<thresholds, calc_total, calc_current, dbVars>>

\* a later recalculation fed with the level the previous one produced
Recalculate(total) ==
    /\ calc_result # <<>>
    /\ calc_total' = total
    /\ calc_current' = calc_result[1]
    /\ calc_result' = <<DeterminePunishmentLevel(thresholds, total, calc_result[1])>>
    /\ UNCHANGED <<thresholds, dbVars>>

NextCalc ==
    \/ Determine
    \/ \E total \in UsageSamples : Recalculate(total)

SpecCalc == InitCalc /\ [][NextCalc]_vars

----------------------------------------------------------------------------
(* Bounds of the punishment store model *)

Users == {"u1", "u2"}

\* rows the punishments table may hold
MaxPunishments == 2

\* clock ticks per day
TicksPerDay == 2

\* window usages handed to process_user_behavior
ProcessUsages == {0, GB(600), GB(1100)}

\* request_limit of the stats rows handed to ensure_user_exists
LimitSamples == {10}

\* arguments of PunishmentManager.create_punishment and add_punishment
CreateLevels == {WARNING}
CooldownSamples == {7}
ReductionSamples == {50}
CreateUsages == {GB(1000)}

\* arguments of override_punishment and reset_punishment
StoreOverrides == {"remove", "escalate"}
OverrideActions == {"remove", "escalate", "pardon"}
ResetReasons == {NoReason, "reset"}

\* clock ticks that may pass between two datetime.now() calls of one handler
MaxDrift == 1
Drifts == 0 .. MaxDrift
\* the latest time the clock shows where it is bounded
MaxClock == 4

\* the persistence call that fails during reset_punishment, if any
NoFault == "none"
ResetFaults == {NoFault, "lookup", "deactivate", "commit"}

\* levels handed to the punish command (cli/commands/punish.py)
RaceLevels == {WARNING, MILD}

\* the richer numeric inputs of the quota specification
QuotaUser == "u1"
QuotaLimits == {3, 10, 100}
QuotaReductions == {0 - 100, 0 - 10, 0, 50, 60, 100}
QuotaLevels == {WARNING, SEVERE}

----------------------------------------------------------------------------
(* Helpers *)

Max(a, b) == IF a >= b THEN a ELSE b

\* Python's // : floor division
FloorDiv(a, b) == a \div b

\* timedelta(days=d) on the logical clock
Days(d) == d * TicksPerDay

----------------------------------------------------------------------------
(* DatabaseManager (database/manager.py) *)

PunishmentIds(P) == 1 .. Len(P)

ActiveIds(P, u) == {i \in PunishmentIds(P) : P[i].user_id = u /\ P[i].is_active}

\* SELECT ... WHERE user_id = ? AND is_active = 1 ORDER BY start_date DESC LIMIT 1
\* mutant: the oldest active row is returned
GetActivePunishment_Oldest(P, u) ==
    IF ActiveIds(P, u) = {} THEN NoId
    ELSE CHOOSE i \in ActiveIds(P, u) :
            \A j \in ActiveIds(P, u) : P[i].start_date <= P[j].start_date

GetActivePunishment(P, u) ==
    IF ActiveIds(P, u) = {} THEN NoId
    ELSE CHOOSE i \in ActiveIds(P, u) :
            \A j \in ActiveIds(P, u) : P[j].start_date <= P[i].start_date

\* the row a call of DatabaseManager.create_punishment / add_punishment inserts
PunishmentRow(u, level, start, end, cooldown, reduction, usage, reason, active) ==
    [user_id |-> u, level |-> level, start_date |-> start, end_date |-> end,
     cooldown_days |-> cooldown, request_reduction |-> reduction,
     data_usage |-> usage, reason |-> reason, is_active |-> active]

\* DatabaseManager.create_punishment: a bare INSERT
DbCreatePunishment(P, row) == Append(P, row)

\* mutant: only the row get_active_punishment returns is deactivated
DbDeactivatePunishment_OnlyNewest(P, u, reason) ==
    [i \in PunishmentIds(P) |->
        IF i = GetActivePunishment(P, u)
        THEN [P[i] EXCEPT !.is_active = FALSE,
                          !.reason = IF reason = NoReason THEN @ ELSE reason]
        ELSE P[i]]

\* UPDATE punishments SET is_active = 0, reason = COALESCE(?, reason)
\*   WHERE user_id = ? AND is_active = 1
DbDeactivatePunishment(P, u, reason) ==
    [i \in PunishmentIds(P) |->
        IF P[i].user_id = u /\ P[i].is_active
        THEN [P[i] EXCEPT !.is_active = FALSE,
                          !.reason = IF reason = NoReason THEN @ ELSE reason]
        ELSE P[i]]

\* DatabaseManager.update_punishment: UPDATE ... WHERE id = ?
DbUpdatePunishment(P, id, row) == [P EXCEPT ![id] = row]

\* the first statement of add_punishment
DbDeactivateActive(P, u) ==
    [i \in PunishmentIds(P) |->
        IF P[i].user_id = u /\ P[i].is_active
        THEN [P[i] EXCEPT !.is_active = FALSE]
        ELSE P[i]]

\* the last statement of add_punishment: UPDATE user_stats SET
\*   current_punishment_id, punishment_level, cooldown_days WHERE user_id = ?
DbLinkPunishment(S, u, id, level, cooldown) ==
    IF u \in DOMAIN S
    THEN [S EXCEPT ![u] = [@ EXCEPT !.current_punishment_id = id,
                                    !.punishment_level = level,
                                    !.cooldown_days = cooldown]]
    ELSE S

\* DatabaseManager.save_user_stats: UPDATE of every column but
\* current_punishment_id and last_request_date
DbSaveUserStats(S, u, stats) ==
    IF u \in DOMAIN S
    THEN [S EXCEPT ![u] = [@ EXCEPT !.total_data_usage = stats.total_data_usage,
                                    !.total_requests = stats.total_requests,
                                    !.punishment_level = stats.punishment_level,
                                    !.cooldown_days = stats.cooldown_days,
                                    !.request_limit = stats.request_limit]]
    ELSE S

\* SQL NULL in the text column username, the username a caller passes in
\* its UserStats, and the f"user_{user_id}" of add_request
NullText == "NULL"
GivenName == "given"
DefaultUsername(u) == "user_" \o u

\* the row ensure_user_exists inserts for its callers (cli/main.py:132-141)
NewStatsRow(limit) ==
    [username |-> GivenName, total_data_usage |-> 0, total_requests |-> 0, punishment_level |-> 0,
     cooldown_days |-> 0, request_limit |-> limit, current_punishment_id |-> NoId]

----------------------------------------------------------------------------
(* PunishmentManager (core/punishments/manager.py) *)

\* create_punishment line 201
\* mutant: the floor of 5 is missing
ReducedLimit_NoFloor(request_limit, request_reduction) ==
    request_limit - FloorDiv(request_limit * request_reduction, 100)

ReducedLimit(request_limit, request_reduction) ==
    Max(5, request_limit - FloorDiv(request_limit * request_reduction, 100))

\* calculate_punishment lines 94-96
CurrentLevel(P, cur) ==
    IF cur # NoId /\ P[cur].is_active THEN P[cur].level ELSE NoLevel

\* PunishmentCalculator.calculate_punishment: <<>> for None, else <<the
\* punishment>>; t1 and t2 are the clock reads of start_date and end_date
CalculatePunishment(th, u, total_data_bytes, current_punishment, t1, t2) ==
    LET current_level == IF current_punishment # <<>> /\ current_punishment[1].is_active
                         THEN current_punishment[1].level ELSE NoLevel
        new_level == DeterminePunishmentLevel(th, total_data_bytes, current_level)
    IN  IF new_level = NONE THEN <<>>
        ELSE << PunishmentRow(u, new_level, t1, t2 + Days(DefaultCooldowns[new_level]),
                              DefaultCooldowns[new_level], DefaultRequestLimits[new_level],
                              total_data_bytes, "usage", TRUE) >>

----------------------------------------------------------------------------
(* Specification of the punishment store and its manager *)

Init ==
    /\ thresholds = ThresholdsInBytes(DefaultThresholdsGB)
    /\ calc_total = 0
    /\ calc_current = NoLevel
    /\ calc_result = <<>>
    /\ punishments = <<>>
    /\ user_stats = <<>>
    /\ db_requests = <<>>
    /\ now = 0
    /\ last = NoCall
    /\ tasks = <<>>
    /\ agg = IdleAgg
    /\ corr_cache = <<>>
    /\ lookups = IdleLookups
    /\ pg = IdlePages
    /\ broker = NoBroker
    /\ status = NoStatus

\* DatabaseManager.ensure_user_exists
EnsureUserExists(u, limit) ==
    /\ user_stats' = IF u \in DOMAIN user_stats THEN user_stats
                     ELSE (u :> NewStatsRow(limit)) @@ user_stats
    /\ last' = [op |-> "ensure_user_exists", user |-> u, created |-> FALSE]
    /\ UNCHANGED <<storeIdle, punishments, now>>

\* PunishmentManager.process_user_behavior, calculate_punishment included;
\* drift is the time between the two clock reads of calculate_punishment
ProcessUserBehavior(u, total_data_bytes, cur, drift) ==
    LET current_punishment == IF cur = NoId THEN <<>> ELSE <<punishments[cur]>>
        punishment == CalculatePunishment(thresholds, u, total_data_bytes,
                                          current_punishment, now, now + drift)
    IN  /\ IF punishment = <<>>
           THEN UNCHANGED <<punishments, now>>
           ELSE /\ Len(punishments) < MaxPunishments
                /\ punishments' = DbCreatePunishment(punishments, punishment[1])
                /\ now' = now + Max(drift, 1)
        /\ last' = [op |-> "process_user_behavior", user |-> u,
                    total |-> total_data_bytes, created |-> punishment # <<>>]
        /\ UNCHANGED <<storeIdle, user_stats>>

\* PunishmentManager.create_punishment
CreatePunishment(u, level, cooldown_days, request_reduction, data_usage) ==
    LET stats == user_stats[u]
        updated == [stats EXCEPT !.punishment_level = level,
                                 !.cooldown_days = cooldown_days,
                                 !.request_limit = ReducedLimit(stats.request_limit, request_reduction)]
        row == PunishmentRow(u, level, now, now + Days(cooldown_days), cooldown_days,
                             request_reduction, data_usage, "manual", TRUE)
    IN  /\ Len(punishments) < MaxPunishments
        /\ user_stats' = IF u \in DOMAIN user_stats
                         THEN DbSaveUserStats(user_stats, u, updated)
                         ELSE user_stats
        /\ punishments' = DbCreatePunishment(punishments, row)
        /\ now' = now + 1
        /\ last' = [op |-> "create_punishment", user |-> u, created |-> TRUE,
                    reduction |-> request_reduction,
                    prior_limit |-> IF u \in DOMAIN user_stats
                                    THEN user_stats[u].request_limit ELSE 0]
        /\ UNCHANGED storeIdle

\* PunishmentManager.override_punishment; drift is the time between the two
\* datetime.now() calls of lines 101-102
OverridePunishment(u, action, drift) ==
    LET current == GetActivePunishment(punishments, u)
        row == PunishmentRow(u, SEVERE, now, (now + drift) + Days(7), 7, 50, 0,
                             "override", TRUE)
    IN  /\ CASE action = "remove" ->
                 /\ punishments' =
                        IF current # NoId
                        THEN DbUpdatePunishment(punishments, current,
                                 [punishments[current] EXCEPT !.is_active = FALSE])
                        ELSE punishments
                 /\ UNCHANGED now
              [] action = "escalate" ->
                 /\ Len(punishments) < MaxPunishments
                 /\ punishments' = DbCreatePunishment(punishments, row)
                 /\ now' = now + Max(drift, 1)
              [] OTHER -> UNCHANGED <<punishments, now>>
        /\ last' = [op |-> "override_punishment", user |-> u, action |-> action,
                    created |-> action = "escalate"]
        /\ UNCHANGED <<storeIdle, user_stats>>

\* reset_punishment lines 151-168: the value returned, given whether the
\* lookup found an active punishment and whether a call in the try block raised
\* mutant: nothing to reset is reported as a failure
ResetResult_FalseWhenNone(found, failed) == found /\ ~failed

\* mutant: the except branch is missing its return False
ResetResult_IgnoreFailure(found, failed) == TRUE

ResetResult(found, failed) ==
    IF failed THEN FALSE
    ELSE IF ~found THEN TRUE
    ELSE TRUE

\* PunishmentManager.reset_punishment; fault names the call of the persistence
\* layer that raises when it is reached: the lookup, the UPDATE, or the commit
\* after the UPDATE
ResetPunishment(u, reason, fault) ==
    LET current == GetActivePunishment(punishments, u)
        found == fault # "lookup" /\ current # NoId
        failed == fault = "lookup" \/ (found /\ fault \in {"deactivate", "commit"})
        updated == found /\ fault # "deactivate"
    IN  /\ punishments' = IF updated THEN DbDeactivatePunishment(punishments, u, reason)
                          ELSE punishments
        /\ last' = [op |-> "reset_punishment", user |-> u, created |-> FALSE,
                    found |-> found, fault |-> fault,
                    deactivated |-> IF updated
                                    THEN Cardinality(ActiveIds(punishments, u)) ELSE 0,
                    returned |-> ResetResult(found, failed)]
        /\ UNCHANGED <<storeIdle, user_stats, now>>

\* DatabaseManager.add_punishment, run without interruption
AddPunishment(u, level, cooldown_days, request_reduction) ==
    LET row == PunishmentRow(u, level, now, now + Days(cooldown_days), cooldown_days,
                             request_reduction, 0, "manual", TRUE)
        inserted == Append(DbDeactivateActive(punishments, u), row)
    IN  /\ Len(punishments) < MaxPunishments
        /\ punishments' = inserted
        /\ user_stats' = DbLinkPunishment(user_stats, u, Len(inserted), level, cooldown_days)
        /\ now' = now + 1
        /\ last' = [op |-> "add_punishment", user |-> u, created |-> TRUE]
        /\ UNCHANGED storeIdle

\* the current_punishment handed to process_user_behavior: the user's active
\* punishment, or None as in UserManager.adjust_request_limit (with 0 bytes)
PassedCurrent(u, total) ==
    {GetActivePunishment(punishments, u)} \cup (IF total = 0 THEN {NoId} ELSE {})

Next ==
    \/ \E u \in Users, limit \in LimitSamples : EnsureUserExists(u, limit)
    \/ \E u \in Users, total \in ProcessUsages :
         \E cur \in PassedCurrent(u, total) : ProcessUserBehavior(u, total, cur, 0)
    \/ \E u \in Users, level \in CreateLevels, cd \in CooldownSamples,
          red \in ReductionSamples, usage \in CreateUsages :
            CreatePunishment(u, level, cd, red, usage)
    \/ \E u \in Users, action \in StoreOverrides : OverridePunishment(u, action, 0)
    \/ \E u \in Users : ResetPunishment(u, NoReason, NoFault)
    \/ \E u \in Users, level \in CreateLevels, cd \in CooldownSamples,
          red \in ReductionSamples : AddPunishment(u, level, cd, red)

Spec == Init /\ [][Next]_vars

----------------------------------------------------------------------------
(* Specification of the quota arithmetic: one user, more numbers *)

NextQuota ==
    \/ \E limit \in QuotaLimits : EnsureUserExists(QuotaUser, limit)
    \/ \E total \in ProcessUsages :
         \E cur \in PassedCurrent(QuotaUser, total) : ProcessUserBehavior(QuotaUser, total, cur, 0)
    \/ \E level \in QuotaLevels, cd \in CooldownSamples,
          red \in QuotaReductions, usage \in CreateUsages :
            CreatePunishment(QuotaUser, level, cd, red, usage)

SpecQuota == Init /\ [][NextQuota]_vars

\* the inputs of calculate_punishment: usages around the thresholds and the
\* current punishment the caller passes, active or not, or None
PunishUser == "u1"
PunishUsages == {0, GB(499), GB(500), GB(800), GB(1100), GB(1600)}
PunishCurrents ==
    {<<>>} \cup { << PunishmentRow(PunishUser, level, 0, Days(1), 1, 0, 0, "usage", active) >> :
                     level \in WARNING .. MAXIMUM, active \in BOOLEAN }

\* one call of PunishmentCalculator.calculate_punishment, its arguments and
\* its result kept in last
CalculateCall(u, total_data_bytes, current_punishment, drift) ==
    /\ now + drift <= MaxClock
    /\ last' = [op |-> "calculate_punishment", user |-> u, created |-> FALSE,
                total |-> total_data_bytes, current |-> current_punishment,
                result |-> CalculatePunishment(thresholds, u, total_data_bytes,
                                               current_punishment, now, now + drift)]
    /\ now' = now + drift
    /\ UNCHANGED <<storeIdle, punishments, user_stats>>

NextPunish ==
    \E total \in PunishUsages, current \in PunishCurrents, drift \in Drifts :
        CalculateCall(PunishUser, total, current, drift)

SpecPunish == Init /\ [][NextPunish]_vars

----------------------------------------------------------------------------
(* Claims about determine_punishment_level, under SpecCalc *)

\* the highest level whose threshold the usage reaches, NONE below all
MaxExceededLevel(th, total) ==
    LET reached == {l \in DOMAIN th : total >= th[l]}
    IN  IF reached = {} THEN NONE
        ELSE CHOOSE l \in reached : \A m \in reached : m <= l

\* C2: for every usage and every current level in NONE..MAXIMUM the level
\* returned is at least the current level, and it is exactly the current
\* level when the usage alone would give a lower one.
C2_NeverBelowCurrent ==
    (calc_result # <<>> /\ calc_current \in PunishmentLevel) =>
        /\ calc_result[1] >= calc_current
        /\ (MaxExceededLevel(thresholds, calc_total) < calc_current
                => calc_result[1] = calc_current)

C2_Witness ==
    /\ calc_result = <<MILD>>
    /\ calc_current = MILD
    /\ MaxExceededLevel(thresholds, calc_total) = WARNING

\* C3: MAXIMUM is absorbing: a call with current level MAXIMUM returns
\* MAXIMUM for every usage, so once a recalculation produced MAXIMUM every
\* later one fed with that level produces MAXIMUM too.
C3_MaximumAbsorbing ==
    /\ []((calc_result # <<>> /\ calc_current = MAXIMUM) => calc_result = <<MAXIMUM>>)
    /\ [][calc_result = <<MAXIMUM>> => calc_result' = <<MAXIMUM>>]_vars

C3_Witness ==
    /\ calc_current = MAXIMUM
    /\ calc_total = 0
    /\ calc_result = <<MAXIMUM>>

\* C4: without a current level (None or NONE) the result is the highest
\* level whose threshold is <= the usage, equality included, and NONE below
\* every threshold; under the default thresholds 900GB gives MILD.
C4_HighestThreshold ==
    (calc_result # <<>> /\ calc_current \in {NoLevel, NONE}) =>
        /\ calc_result[1] = MaxExceededLevel(thresholds, calc_total)
        /\ (thresholds = ThresholdsInBytes(DefaultThresholdsGB) /\ calc_total = GB(900)
                => calc_result[1] = MILD)

C4_Witness ==
    /\ thresholds = ThresholdsInBytes(DefaultThresholdsGB)
    /\ calc_current = NoLevel
    /\ calc_total = GB(900)
    /\ calc_result = <<MILD>>

----------------------------------------------------------------------------
(* Specification of concurrent add_punishment calls on one connection.     *)
(* The connection is opened with isolation_level=None, so every statement  *)
(* commits on its own, and every `await cursor.execute` lets the other     *)
(* task run.                                                               *)

Tasks == {"t1", "t2"}

IdleTask == [pc |-> "idle", user |-> "", level |-> NONE, start_date |-> 0, id |-> NoId]

\* rows that the calls in flight are still going to insert
PendingInserts == Cardinality({t \in Tasks : tasks[t].pc \in {"deactivate", "insert"}})

InitRace ==
    /\ thresholds = ThresholdsInBytes(DefaultThresholdsGB)
    /\ calc_total = 0
    /\ calc_current = NoLevel
    /\ calc_result = <<>>
    /\ punishments = <<>>
    /\ user_stats = <<>>
    /\ db_requests = <<>>
    /\ now = 0
    /\ last = NoCall
    /\ tasks = [t \in Tasks |-> IdleTask]
    /\ agg = IdleAgg
    /\ corr_cache = <<>>
    /\ lookups = IdleLookups
    /\ pg = IdlePages
    /\ broker = NoBroker
    /\ status = NoStatus

\* the caller builds the UserPunishment and enters add_punishment
RaceBegin(t, u, level) ==
    /\ tasks[t].pc = "idle"
    /\ Len(punishments) + PendingInserts < MaxPunishments
    /\ tasks' = [tasks EXCEPT ![t] = [pc |-> "deactivate", user |-> u, level |-> level,
                                      start_date |-> now, id |-> NoId]]
    /\ now' = now + 1
    /\ UNCHANGED <<status, thresholds, calcVars, aggVars, pageVars, punishments, user_stats, last, db_requests>>

\* add_punishment lines 275-282: UPDATE punishments SET is_active = 0 ...
RaceDeactivate(t) ==
    /\ tasks[t].pc = "deactivate"
    /\ punishments' = DbDeactivateActive(punishments, tasks[t].user)
    /\ tasks' = [tasks EXCEPT ![t].pc = "insert"]
    /\ UNCHANGED <<status, thresholds, calcVars, aggVars, pageVars, user_stats, now, last, db_requests>>

\* add_punishment lines 285-308: INSERT INTO punishments, lastrowid
RaceInsert(t) ==
    LET cd == 7 * tasks[t].level
        row == PunishmentRow(tasks[t].user, tasks[t].level, tasks[t].start_date,
                             tasks[t].start_date + Days(cd), cd, 5 * tasks[t].level,
                             0, "manual", TRUE)
    IN  /\ tasks[t].pc = "insert"
        /\ punishments' = Append(punishments, row)
        /\ tasks' = [tasks EXCEPT ![t].pc = "link", ![t].id = Len(punishments) + 1]
        /\ UNCHANGED <<status, thresholds, calcVars, aggVars, pageVars, user_stats, now, last, db_requests>>

\* add_punishment lines 310-325: UPDATE user_stats SET current_punishment_id ...
RaceLink(t) ==
    /\ tasks[t].pc = "link"
    /\ user_stats' = DbLinkPunishment(user_stats, tasks[t].user, tasks[t].id,
                                      tasks[t].level, 7 * tasks[t].level)
    /\ tasks' = [tasks EXCEPT ![t].pc = "commit"]
    /\ UNCHANGED <<status, thresholds, calcVars, aggVars, pageVars, punishments, now, last, db_requests>>

\* add_punishment lines 327-328: commit (nothing is pending) and return
RaceCommit(t) ==
    /\ tasks[t].pc = "commit"
    /\ tasks' = [tasks EXCEPT ![t] = IdleTask]
    /\ last' = [op |-> "add_punishment", user |-> tasks[t].user, created |-> TRUE]
    /\ UNCHANGED <<status, thresholds, calcVars, aggVars, pageVars, punishments, user_stats, now, db_requests>>

\* DatabaseManager.ensure_user_exists, as called before add_punishment
RaceEnsureUser(u, limit) ==
    /\ user_stats' = IF u \in DOMAIN user_stats THEN user_stats
                     ELSE (u :> NewStatsRow(limit)) @@ user_stats
    /\ last' = [op |-> "ensure_user_exists", user |-> u, created |-> FALSE]
    /\ UNCHANGED <<status, thresholds, calcVars, aggVars, pageVars, punishments, now, tasks, db_requests>>

NextRace ==
    \/ \E u \in Users, limit \in LimitSamples : RaceEnsureUser(u, limit)
    \/ \E t \in Tasks, u \in Users, level \in RaceLevels : RaceBegin(t, u, level)
    \/ \E t \in Tasks : RaceDeactivate(t)
    \/ \E t \in Tasks : RaceInsert(t)
    \/ \E t \in Tasks : RaceLink(t)
    \/ \E t \in Tasks : RaceCommit(t)

SpecRace == InitRace /\ [][NextRace]_vars

----------------------------------------------------------------------------
(* Size aggregation (core/tracking/calculator.py, correlation.py) *)

\* requests one aggregation call may fetch
MaxRequests == 3

\* what the broker returns for a request: media type, tmdbId, status code
RequestSamples ==
    { [mediaType |-> "movie", tmdbId |-> 1, status |-> 1],
      [mediaType |-> "tv", tmdbId |-> 2, status |-> 2],
      [mediaType |-> "music", tmdbId |-> 3, status |-> 2],
      [mediaType |-> "movie", tmdbId |-> NoId, status |-> 1] }

\* sizeOnDisk values of the library managers, in units
SizeSamples == {0, 700}

\* what a library manager answers to a lookup by identifier
LibraryReplies ==
    {[kind |-> "error", size |-> 0], [kind |-> "missing", size |-> 0]}
        \cup {[kind |-> "found", size |-> sz] : sz \in SizeSamples}

\* what the metadata service answers to /tv/{id}/external_ids
TmdbReplies ==
    { [kind |-> "error", tvdb_id |-> NoId], [kind |-> "status", tvdb_id |-> NoId],
      [kind |-> "ok", tvdb_id |-> NoId], [kind |-> "ok", tvdb_id |-> 71] }

\* the replies of the three upstream services during one size lookup
Environments == [radarr : LibraryReplies, tmdb : TmdbReplies, sonarr : LibraryReplies]

\* str(request_data["status"])
StatusText == (1 :> "1") @@ (2 :> "2") @@ (3 :> "3")

\* str(request_data["media"]["tmdbId"]); a null tmdbId gives "None"
MediaIdText == (NoId :> "None") @@ (1 :> "1") @@ (2 :> "2") @@ (3 :> "3")

\* int(request.media_id): the texts int() accepts, and their values
NumericTexts == {"1", "2", "3"}
IntOf(text) == CHOOSE n \in 1 .. 3 : MediaIdText[n] = text

\* the outcome of a size lookup: a size, a raised APIError with its text,
\* or the ValueError of int()
Returned(size) == [raised |-> FALSE, class |-> "", message |-> "", size |-> size]
Raised(message) == [raised |-> TRUE, class |-> "APIError", message |-> message, size |-> 0]
RaisedValueError ==
    [raised |-> TRUE, class |-> "ValueError", message |-> "invalid literal for int()", size |-> 0]

\* MediaCorrelationService.get_tv_identifiers: <<found, tvdb_id, cache>>
GetTvIdentifiers(cache, tmdb_id, reply) ==
    IF tmdb_id \in DOMAIN cache
    THEN [found |-> TRUE, tvdb_id |-> cache[tmdb_id], cache |-> cache]
    ELSE IF reply.kind # "ok"
         THEN [found |-> FALSE, tvdb_id |-> NoId, cache |-> cache]
         ELSE [found |-> TRUE, tvdb_id |-> reply.tvdb_id,
               cache |-> (tmdb_id :> reply.tvdb_id) @@ cache]

\* SizeCalculator.calculate_movie_request_size
\* mutant: a movie the library does not know counts as 0 bytes
CalculateMovieRequestSize_ZeroWhenMissing(reply) ==
    IF reply.kind = "error" THEN Raised("API request failed")
    ELSE IF reply.kind = "missing" THEN Returned(0)
    ELSE Returned(reply.size)

CalculateMovieRequestSize(reply) ==
    IF reply.kind = "error" THEN Raised("API request failed")
    ELSE IF reply.kind = "missing" THEN Raised("Movie with TMDB ID not found")
    ELSE Returned(reply.size)

\* SizeCalculator.calculate_series_request_size, given the identifiers
CalculateSeriesRequestSize(identifiers, reply) ==
    IF ~identifiers.found \/ identifiers.tvdb_id = NoId
    THEN Raised("Series with TMDB ID not found")
    ELSE IF reply.kind = "error" THEN Raised("API request failed")
    ELSE IF reply.kind = "missing" THEN Raised("Series with TVDB ID not found")
    ELSE Returned(reply.size)

\* SizeCalculator.calculate_request_size
CalculateRequestSize(cache, request, env) ==
    IF request.media_id \notin NumericTexts THEN RaisedValueError
    ELSE IF request.media_type = "movie" THEN CalculateMovieRequestSize(env.radarr)
    ELSE IF request.media_type = "tv"
         THEN CalculateSeriesRequestSize(
                  GetTvIdentifiers(cache, IntOf(request.media_id), env.tmdb), env.sonarr)
    ELSE Raised("Unknown media type")

\* the cache after calculate_request_size
CacheAfter(cache, request, env) ==
    IF request.media_id \in NumericTexts /\ request.media_type = "tv"
    THEN GetTvIdentifiers(cache, IntOf(request.media_id), env.tmdb).cache
    ELSE cache

\* lines 127-135: the UserRequest built from a broker request
ToUserRequest(id, request_data) ==
    [id |-> id, media_id |-> MediaIdText[request_data.tmdbId], media_type |-> request_data.mediaType,
     size_bytes |-> 0, status |-> StatusText[request_data.status]]

\* lines 137-146: one request after the try block
\* mutant: the except branch leaves the status alone
ProcessedRequest_KeepStatus(request, outcome) ==
    IF outcome.raised THEN request
    ELSE [request EXCEPT !.size_bytes = outcome.size]

ProcessedRequest(request, outcome) ==
    IF outcome.raised THEN [request EXCEPT !.status = outcome.message]
    ELSE [request EXCEPT !.size_bytes = outcome.size]

\* line 142: `except APIError` catches the outcome; anything else propagates
Propagates(outcome) == outcome.raised /\ outcome.class # "APIError"

\* lines 139-141: the running total after one request
\* mutant: a failed lookup throws the running total away
TotalAfter_ResetOnFailure(total_size, outcome) ==
    IF outcome.raised THEN 0 ELSE total_size + outcome.size

TotalAfter(total_size, outcome) ==
    IF outcome.raised THEN total_size ELSE total_size + outcome.size

\* the replies that matter to a request of the given media type
RelevantEnvironments(request_data) ==
    {env \in Environments :
        /\ request_data.mediaType # "movie" => env.radarr = [kind |-> "error", size |-> 0]
        /\ request_data.mediaType # "tv" =>
              /\ env.tmdb = [kind |-> "error", tvdb_id |-> NoId]
              /\ env.sonarr = [kind |-> "error", size |-> 0]}

\* whether, by the replies of the upstream services, the size of a request
\* could not be resolved: a library error, unknown media, no tvdb id
LookupFails(cache, request_data, env) ==
    CASE request_data.mediaType = "movie" -> env.radarr.kind # "found"
      [] request_data.mediaType = "tv" ->
            \/ (IF request_data.tmdbId \in DOMAIN cache
                THEN cache[request_data.tmdbId] = NoId
                ELSE env.tmdb.kind # "ok" \/ env.tmdb.tvdb_id = NoId)
            \/ env.sonarr.kind # "found"
      [] OTHER -> TRUE

ResolvedSize(request_data, env) ==
    IF request_data.mediaType = "movie" THEN env.radarr.size ELSE env.sonarr.size

RequestLists == UNION {[1 .. n -> RequestSamples] : n \in 0 .. MaxRequests}

InitAgg ==
    /\ thresholds = ThresholdsInBytes(DefaultThresholdsGB)
    /\ calc_total = 0
    /\ calc_current = NoLevel
    /\ calc_result = <<>>
    /\ punishments = <<>>
    /\ user_stats = <<>>
    /\ db_requests = <<>>
    /\ now = 0
    /\ last = NoCall
    /\ tasks = <<>>
    /\ agg = IdleAgg
    /\ corr_cache = <<>>
    /\ lookups = IdleLookups
    /\ pg = IdlePages
    /\ broker = NoBroker
    /\ status = NoStatus

\* lines 116-123: the broker's requests are fetched, the locals initialised
AggFetch(requests) ==
    /\ agg.pc \in {"idle", "done", "aborted"}
    /\ agg' = [pc |-> "loop", requests |-> requests, total_size |-> 0,
               processed |-> <<>>, truth |-> <<>>]
    /\ UNCHANGED <<status, pageVars, thresholds, calcVars, punishments, user_stats, now, last, tasks, corr_cache, lookups, db_requests>>

\* lines 125-146: one iteration of the loop, under the replies env
AggStep(env) ==
    LET i == Len(agg.processed) + 1
        request == ToUserRequest(i, agg.requests[i])
        outcome == CalculateRequestSize(corr_cache, request, env)
    IN  /\ agg.pc = "loop"
        /\ i <= Len(agg.requests)
        /\ env \in RelevantEnvironments(agg.requests[i])
        /\ agg' = IF Propagates(outcome)
                  THEN [agg EXCEPT !.pc = "aborted"]
                  ELSE [agg EXCEPT
                     !.total_size = TotalAfter(@, outcome),
                     !.processed = Append(@, ProcessedRequest(request, outcome)),
                     !.truth = Append(@, [failed |-> LookupFails(corr_cache, agg.requests[i], env),
                                          size |-> ResolvedSize(agg.requests[i], env)])]
        /\ corr_cache' = CacheAfter(corr_cache, request, env)
        /\ UNCHANGED <<status, pageVars, thresholds, calcVars, punishments, user_stats, now, last, tasks, lookups, db_requests>>

\* line 148: return total_size, processed_requests
AggReturn ==
    /\ agg.pc = "loop"
    /\ Len(agg.processed) = Len(agg.requests)
    /\ agg' = [agg EXCEPT !.pc = "done"]
    /\ UNCHANGED <<status, pageVars, thresholds, calcVars, punishments, user_stats, now, last, tasks, corr_cache, lookups, db_requests>>

NextAgg ==
    \/ \E requests \in RequestLists : AggFetch(requests)
    \/ \E env \in Environments : AggStep(env)
    \/ AggReturn

SpecAgg == InitAgg /\ [][NextAgg]_vars

----------------------------------------------------------------------------
(* MediaCorrelationService: the identifier cache under calls that overlap *)

MaxLookups == 4
FirstCaller == 1
LookupIds == {1, 2}
LookupKinds == {"tv", "movie"}
LookupReplies ==
    { [kind |-> "error", tvdb_id |-> NoId], [kind |-> "status", tvdb_id |-> NoId],
      [kind |-> "ok", tvdb_id |-> NoId], [kind |-> "ok", tvdb_id |-> 71],
      [kind |-> "ok", tvdb_id |-> 72] }

\* MediaIdentifiers(...): the movie identifiers carry no tvdb_id
IdentifiersOf(kind, reply) == IF kind = "tv" THEN reply.tvdb_id ELSE NoId

\* mutant: an entry already present is kept
CachePut_KeepFirst(cache, tmdb_id, identifiers) == cache @@ (tmdb_id :> identifiers)

\* self._cache[tmdb_id] = identifiers
CachePut(cache, tmdb_id, identifiers) == (tmdb_id :> identifiers) @@ cache

\* lines 52-61 (89-98): the cache is consulted; a hit returns at once, a miss
\* sends the request and suspends the caller
LookupCall(c, kind, tmdb_id) ==
    /\ lookups.calls[c].pc \in {"idle", "returned"}
    /\ lookups.started < MaxLookups
    /\ lookups' = [lookups EXCEPT
                     !.started = @ + 1,
                     !.calls[c] =
                        IF tmdb_id \in DOMAIN corr_cache
                        THEN [pc |-> "returned", kind |-> kind, tmdb_id |-> tmdb_id,
                              upstream |-> FALSE, ok |-> FALSE, found |-> TRUE,
                              tvdb_id |-> corr_cache[tmdb_id]]
                        ELSE [pc |-> "awaiting", kind |-> kind, tmdb_id |-> tmdb_id,
                              upstream |-> TRUE, ok |-> FALSE, found |-> FALSE,
                              tvdb_id |-> NoId]]
    /\ UNCHANGED <<thresholds, calcVars, punishments, user_stats, now, last, tasks,
                   agg, corr_cache, pageVars, status, db_requests>>

\* mutant: a reply that is not a 200 is cached as an entry without tvdb_id
LookupReply_CachesFailure(c, reply) ==
    LET call == lookups.calls[c]
        identifiers == IdentifiersOf(call.kind, reply)
    IN  /\ call.pc = "awaiting"
        /\ lookups' = [lookups EXCEPT
                         !.calls[c] = [call EXCEPT !.pc = "returned",
                                                   !.ok = (reply.kind = "ok"),
                                                   !.found = (reply.kind = "ok"),
                                                   !.tvdb_id = identifiers],
                         !.written = Append(@, [kind |-> call.kind, tmdb_id |-> call.tmdb_id,
                                                identifiers |-> identifiers])]
        /\ corr_cache' = CachePut(corr_cache, call.tmdb_id, identifiers)
        /\ UNCHANGED <<thresholds, calcVars, punishments, user_stats, now, last, tasks,
                       agg, pageVars, status, db_requests>>

\* lines 62-77 (99-113): the reply arrives; a transport error or a status
\* other than 200 returns None, a 200 is cached and returned
LookupReply(c, reply) ==
    LET call == lookups.calls[c]
        identifiers == IdentifiersOf(call.kind, reply)
    IN  /\ call.pc = "awaiting"
        /\ IF reply.kind # "ok"
           THEN /\ lookups' = [lookups EXCEPT !.calls[c] = [call EXCEPT !.pc = "returned"]]
                /\ corr_cache' = corr_cache
           ELSE /\ lookups' = [lookups EXCEPT
                                 !.calls[c] = [call EXCEPT !.pc = "returned",
                                                           !.ok = TRUE,
                                                           !.found = TRUE,
                                                           !.tvdb_id = identifiers],
                                 !.written = Append(@, [kind |-> call.kind, tmdb_id |-> call.tmdb_id,
                                                        identifiers |-> identifiers])]
                /\ corr_cache' = CachePut(corr_cache, call.tmdb_id, identifiers)
        /\ UNCHANGED <<thresholds, calcVars, punishments, user_stats, now, last, tasks,
                       agg, pageVars, status, db_requests>>

\* one caller: every call returns before the next one starts
NextLookups ==
    \/ \E kind \in LookupKinds, tmdb_id \in LookupIds : LookupCall(FirstCaller, kind, tmdb_id)
    \/ \E reply \in LookupReplies : LookupReply(FirstCaller, reply)

SpecLookups == Init /\ [][NextLookups]_vars

\* several callers: a call may start while another awaits its reply
NextCache ==
    \/ \E c \in Callers, tmdb_id \in LookupIds : LookupCall(c, "tv", tmdb_id)
    \/ \E c \in Callers, reply \in LookupReplies : LookupReply(c, reply)

SpecCache == Init /\ [][NextCache]_vars

----------------------------------------------------------------------------
(* Pagination of the broker's requests (api/overseerr/client.py) *)

\* get_user_requests: page_size: int = 20, and the default of
\* response.get("pageSize", 20)
DefaultPageSize == 20

\* the top-level key "pageSize" is absent from a response
NoPageSize == 0

\* full pages the broker may hold
MaxPages == 2

\* the sizes of the broker's last, short page
ShortPages == {0, 1, 19}

\* createdAt of the requests, and the window arguments
InsideDate == 5
OutsideDates == {1, 9}
WindowStarts == {NoDate, 3}
WindowEnds == {NoDate, 7}

\* positions whose request may lie outside the window
OddPositions == {1, 20, 21}

\* the broker's requests: ids 1..n, all inside the window but those at odd
BrokerItems(n, odd, d) ==
    [i \in 1 .. n |-> [id |-> i, createdAt |-> IF i \in odd THEN d ELSE InsideDate]]

Min(a, b) == IF a <= b THEN a ELSE b

\* the broker's reply to take/skip: the slice of its requests, and the
\* top-level pageSize key when it sends one
BrokerResponse(b, take, skip) ==
    [results |-> SubSeq(b.items, skip + 1, Min(skip + take, Len(b.items))),
     pageSize |-> b.pageSize]

\* get_user_requests lines 63-66: the request passes the date filter
KeptByFilter(request, start_date, end_date) ==
    /\ ~(start_date # NoDate /\ request.createdAt < start_date)
    /\ ~(end_date # NoDate /\ request.createdAt > end_date)

\* OverseerrClient.get_user_requests
GetUserRequests(b, start_date, end_date, page, page_size) ==
    LET response == BrokerResponse(b, page_size, (page - 1) * page_size)
        Keep(request) == KeptByFilter(request, start_date, end_date)
    IN  IF start_date # NoDate \/ end_date # NoDate
        THEN [response EXCEPT !.results = SelectSeq(@, Keep)]
        ELSE response

\* response.get("pageSize", 20)
PageSizeOf(response) ==
    IF response.pageSize = NoPageSize THEN DefaultPageSize ELSE response.pageSize

\* get_all_user_requests lines 105-112: the loop ends after this page
\* mutant: only an empty page ends the loop
LastPage_OnlyWhenEmpty(response) == response.results = <<>>

LastPage(response) ==
    \/ response.results = <<>>
    \/ Len(response.results) < PageSizeOf(response)

InitPages ==
    /\ thresholds = ThresholdsInBytes(DefaultThresholdsGB)
    /\ calc_total = 0
    /\ calc_current = NoLevel
    /\ calc_result = <<>>
    /\ punishments = <<>>
    /\ user_stats = <<>>
    /\ db_requests = <<>>
    /\ now = 0
    /\ last = NoCall
    /\ tasks = <<>>
    /\ agg = IdleAgg
    /\ corr_cache = <<>>
    /\ lookups = IdleLookups
    /\ pg = IdlePages
    /\ status = NoStatus
    /\ \E full \in 0 .. MaxPages, short \in ShortPages, odd \in SUBSET OddPositions,
          d \in OutsideDates, key \in {NoPageSize, DefaultPageSize} :
            broker = [items |-> BrokerItems(full * DefaultPageSize + short, odd, d),
                      pageSize |-> key]

\* lines 92-93: the call starts with page 1 and an empty list
PagesBegin(start_date, end_date) ==
    /\ pg.pc = "idle"
    /\ pg' = [IdlePages EXCEPT !.pc = "loop", !.start_date = start_date,
                               !.end_date = end_date]
    /\ UNCHANGED <<thresholds, calcVars, punishments, user_stats, now, last, tasks,
                   aggVars, broker, status, db_requests>>

\* lines 96-102: the page is requested, the task awaits the reply
PageRequest ==
    /\ pg.pc = "loop"
    /\ pg' = [pg EXCEPT !.pc = "await", !.issued = Append(@, pg.page)]
    /\ UNCHANGED <<thresholds, calcVars, punishments, user_stats, now, last, tasks,
                   aggVars, broker, status, db_requests>>

\* lines 104-114: the reply arrives; extend, stop or go to the next page
PageResponse ==
    LET response == GetUserRequests(broker, pg.start_date, pg.end_date, pg.page,
                                    DefaultPageSize)
    IN  /\ pg.pc = "await"
        /\ pg' = [pg EXCEPT
                    !.completed = Append(@, pg.page),
                    !.all_requests = @ \o response.results,
                    !.pc = IF LastPage(response) THEN "done" ELSE "loop",
                    !.page = IF LastPage(response) THEN @ ELSE @ + 1]
        /\ UNCHANGED <<thresholds, calcVars, punishments, user_stats, now, last, tasks,
                       aggVars, broker, status, db_requests>>

NextPages ==
    \/ \E start_date \in WindowStarts, end_date \in WindowEnds :
          PagesBegin(start_date, end_date)
    \/ PageRequest
    \/ PageResponse

SpecPages == InitPages /\ [][NextPages]_vars

----------------------------------------------------------------------------
(* UserStatus and the status reads of UserManager (core/user_management.py) *)

\* line 60: the default Overseerr limit
BaselineLimit == 100

\* UserStatus.is_punished, with t the value of datetime.now();
\* current_punishment is <<>> for None and <<punishment>> otherwise
\* mutant: the end date is not looked at
IsPunished_IgnoresExpiry(current_punishment, t) ==
    IF current_punishment = <<>> THEN FALSE
    ELSE current_punishment[1].is_active

IsPunished(current_punishment, t) ==
    IF current_punishment = <<>> THEN FALSE
    ELSE current_punishment[1].is_active /\ t < current_punishment[1].end_date

\* UserStatus.remaining_cooldown_days: is_punished reads the clock at t1,
\* line 53 reads it again at t2; timedelta.days is the floor of the days
RemainingCooldownDays(current_punishment, t1, t2) ==
    IF ~IsPunished(current_punishment, t1) \/ current_punishment = <<>> THEN 0
    ELSE Max(0, FloorDiv(current_punishment[1].end_date - t2, TicksPerDay))

\* UserStatus.current_request_limit
\* mutant: the difference is not floored at 0
CurrentRequestLimit_NoFloor(current_punishment, t) ==
    IF ~IsPunished(current_punishment, t) \/ current_punishment = <<>> THEN BaselineLimit
    ELSE BaselineLimit - current_punishment[1].request_reduction

CurrentRequestLimit(current_punishment, t) ==
    IF ~IsPunished(current_punishment, t) \/ current_punishment = <<>> THEN BaselineLimit
    ELSE Max(0, BaselineLimit - current_punishment[1].request_reduction)

\* the values the three properties of a status give when read at the clock
\* value t, the second clock read of remaining_cooldown_days being drift later
ReadStatus(pc, current_punishment, t, drift) ==
    [NoStatus EXCEPT
        !.pc = pc,
        !.current_punishment = current_punishment,
        !.read_at = t,
        !.is_punished = <<IsPunished(current_punishment, t)>>,
        !.remaining_cooldown_days =
            <<RemainingCooldownDays(current_punishment, t, t + drift)>>,
        !.current_request_limit = <<CurrentRequestLimit(current_punishment, t)>>]


\* the punishments handed to UserStatus(...), as in tests/core/test_user_management.py
StatusEndDates == {Days(1), Days(2) + 1}
StatusReductions == {0 - 10, 50, 150}
StatusPunishments ==
    {<<>>} \cup
    { <<PunishmentRow("u1", SEVERE, 0, e, 7, r, 0, "test", a)>> :
        e \in StatusEndDates, r \in StatusReductions, a \in BOOLEAN }

InitStatus ==
    /\ thresholds = ThresholdsInBytes(DefaultThresholdsGB)
    /\ calc_total = 0
    /\ calc_current = NoLevel
    /\ calc_result = <<>>
    /\ punishments = <<>>
    /\ user_stats = <<>>
    /\ db_requests = <<>>
    /\ now = 0
    /\ last = NoCall
    /\ tasks = <<>>
    /\ agg = IdleAgg
    /\ corr_cache = <<>>
    /\ lookups = IdleLookups
    /\ pg = IdlePages
    /\ broker = NoBroker
    /\ \E current_punishment \in StatusPunishments :
          status = [NoStatus EXCEPT !.pc = "built",
                                    !.current_punishment = current_punishment]

\* time passes
Tick ==
    /\ now < MaxClock
    /\ now' = now + 1
    /\ UNCHANGED <<thresholds, calcVars, punishments, user_stats, last, tasks,
                   aggVars, pageVars, status, db_requests>>

\* the properties of the status are read
ReadProperties(drift) ==
    /\ status.pc \in {"built", "read"}
    /\ now + drift <= MaxClock
    /\ status' = ReadStatus("read", status.current_punishment, now, drift)
    /\ now' = now + drift
    /\ UNCHANGED <<thresholds, calcVars, punishments, user_stats, last, tasks,
                   aggVars, pageVars, db_requests>>

NextStatus ==
    \/ Tick
    \/ \E drift \in Drifts : ReadProperties(drift)

SpecStatus == InitStatus /\ [][NextStatus]_vars

\* get_punished_users: p.end_date > datetime('now') compares the stored ISO
\* text 'YYYY-MM-DDTHH:MM:SS' with 'YYYY-MM-DD HH:MM:SS'; on equal dates the
\* 'T' is greater than the blank, so only the dates decide
SqlLaterThanNow(end_date, t) ==
    FloorDiv(end_date, TicksPerDay) >= FloorDiv(t, TicksPerDay)

\* UserManager.get_user_status; the properties are read on return.
\* Without a stats row create_user_stats inserts no username and the
\* NOT NULL constraint of the schema makes the call raise.
\* mutant: the read deactivates the punishments whose end date has passed
GetUserStatus_Sweeps(u, drift) ==
    LET swept == [i \in PunishmentIds(punishments) |->
                    IF punishments[i].end_date <= now
                    THEN [punishments[i] EXCEPT !.is_active = FALSE]
                    ELSE punishments[i]]
        current == GetActivePunishment(swept, u)
        punishment == IF current = NoId THEN <<>> ELSE <<swept[current]>>
    IN  /\ now + drift <= MaxClock
        /\ punishments' = swept
        /\ status' = IF u \in DOMAIN user_stats
                     THEN ReadStatus("get_user_status", punishment, now, drift)
                     ELSE [NoStatus EXCEPT !.pc = "raised"]
        /\ now' = IF u \in DOMAIN user_stats THEN now + drift ELSE now
        /\ last' = [op |-> "get_user_status", user |-> u, created |-> FALSE]
        /\ UNCHANGED <<thresholds, calcVars, user_stats, tasks, aggVars, pageVars, db_requests>>

GetUserStatus(u, drift) ==
    LET current == GetActivePunishment(punishments, u)
        punishment == IF current = NoId THEN <<>> ELSE <<punishments[current]>>
    IN  /\ now + drift <= MaxClock
        /\ status' = IF u \in DOMAIN user_stats
                     THEN ReadStatus("get_user_status", punishment, now, drift)
                     ELSE [NoStatus EXCEPT !.pc = "raised"]
        /\ now' = IF u \in DOMAIN user_stats THEN now + drift ELSE now
        /\ last' = [op |-> "get_user_status", user |-> u, created |-> FALSE]
        /\ UNCHANGED <<thresholds, calcVars, punishments, user_stats, tasks,
                       aggVars, pageVars, db_requests>>

\* mutant: the rows of get_punished_users are returned without the
\* is_punished test of list_punished_users
ListPunishedUsers_SqlOnly ==
    LET Linked(u) == user_stats[u].current_punishment_id
        punished_stats ==
            {u \in DOMAIN user_stats :
                /\ Linked(u) \in PunishmentIds(punishments)
                /\ punishments[Linked(u)].is_active
                /\ SqlLaterThanNow(punishments[Linked(u)].end_date, now)}
    IN  /\ status' = [NoStatus EXCEPT
                        !.pc = "list_punished_users",
                        !.read_at = now,
                        !.users = punished_stats]
        /\ last' = [op |-> "list_punished_users", user |-> "", created |-> FALSE]
        /\ UNCHANGED <<thresholds, calcVars, punishments, user_stats, now, tasks,
                       aggVars, pageVars, db_requests>>

\* UserManager.list_punished_users: the users of the statuses returned
ListPunishedUsers ==
    LET Linked(u) == user_stats[u].current_punishment_id
        punished_stats ==
            {u \in DOMAIN user_stats :
                /\ Linked(u) \in PunishmentIds(punishments)
                /\ punishments[Linked(u)].is_active
                /\ SqlLaterThanNow(punishments[Linked(u)].end_date, now)}
    IN  /\ status' = [NoStatus EXCEPT
                        !.pc = "list_punished_users",
                        !.read_at = now,
                        !.users = {u \in punished_stats :
                                     IsPunished(<<punishments[Linked(u)]>>, now)}]
        /\ last' = [op |-> "list_punished_users", user |-> "", created |-> FALSE]
        /\ UNCHANGED <<thresholds, calcVars, punishments, user_stats, now, tasks,
                       aggVars, pageVars, db_requests>>

\* the inputs of the administration specification
AdminUser == "u1"
AdminUsages == {GB(600), GB(1600)}
AdminCooldowns == {1}

NextAdmin ==
    \/ \E limit \in LimitSamples : EnsureUserExists(AdminUser, limit)
    \/ \E total \in AdminUsages :
         \E cur \in PassedCurrent(AdminUser, total) :
            ProcessUserBehavior(AdminUser, total, cur, 0)
    \/ \E level \in CreateLevels, cd \in AdminCooldowns, red \in ReductionSamples :
          AddPunishment(AdminUser, level, cd, red)
    \/ \E action \in OverrideActions, drift \in Drifts :
          OverridePunishment(AdminUser, action, drift)
    \/ \E reason \in ResetReasons, fault \in ResetFaults :
          ResetPunishment(AdminUser, reason, fault)

SpecAdmin == Init /\ [][NextAdmin]_vars

\* the status reads next to the operations that create and deactivate
ReadUsages == {GB(600)}

NextReads ==
    \/ \E limit \in LimitSamples : EnsureUserExists(AdminUser, limit)
    \/ \E total \in ReadUsages :
         \E cur \in PassedCurrent(AdminUser, total) :
            ProcessUserBehavior(AdminUser, total, cur, 0)
    \/ \E level \in CreateLevels, cd \in AdminCooldowns, red \in ReductionSamples :
          AddPunishment(AdminUser, level, cd, red)
    \/ OverridePunishment(AdminUser, "remove", 0)
    \/ ResetPunishment(AdminUser, NoReason, NoFault)
    \/ Tick
    \/ GetUserStatus(AdminUser, 0)
    \/ ListPunishedUsers

SpecReads == Init /\ [][NextReads]_vars

----------------------------------------------------------------------------
(* Requests and user statistics (database/manager.py, core/user_management.py) *)

MaxRequestRows == 2
MaxCounted == 4
RequestUser == "u1"
\* the media types of the requests added: one the schema accepts and the
\* "series" the UserRequest model documents
MediaTypes == {"movie", "series"}
RequestSizes == {300, 700}

\* UserRequest(...) as UserManager.add_request and the CLI build it
UserRequestRow(u, media_type, size_bytes) ==
    [user_id |-> u, media_type |-> media_type, size_bytes |-> size_bytes, status |-> "pending"]

\* schema.py line 22: CHECK (media_type IN ('movie', 'tv'))
RequestsCheck(row) == row.media_type \in {"movie", "tv"}

\* schema.py lines 62-74: the columns of user_stats an INSERT does not name
\* take their defaults; username has none and is NOT NULL
StatsDefaults ==
    [username |-> NullText, total_data_usage |-> 0, total_requests |-> 0,
     punishment_level |-> 0, cooldown_days |-> 0, request_limit |-> 10,
     current_punishment_id |-> NoId]
StatsNotNull(row) == row.username # NullText

\* DatabaseManager.add_request on the tables S and R: the statistics are
\* counted first, each statement is committed on its own (isolation_level
\* None), then the request row is inserted
DbAddRequest(S, R, request) ==
    LET u == request.user_id
        counted ==
            IF u \in DOMAIN S
            THEN [S EXCEPT ![u].total_data_usage = @ + request.size_bytes,
                           ![u].total_requests = @ + 1]
            ELSE (u :> [StatsDefaults EXCEPT !.username = DefaultUsername(u),
                                             !.total_data_usage = request.size_bytes,
                                             !.total_requests = 1]) @@ S
    IN  IF RequestsCheck(request)
        THEN [user_stats |-> counted, db_requests |-> Append(R, request),
              request_id |-> Len(R) + 1, raised |-> NoFault]
        ELSE [user_stats |-> counted, db_requests |-> R,
              request_id |-> NoId, raised |-> "IntegrityError"]

\* the calls counted for a user are capped
MayCount(u) == u \in DOMAIN user_stats => user_stats[u].total_requests < MaxCounted

\* DatabaseManager.add_request
DatabaseAddRequest(u, media_type, size_bytes) ==
    LET added == DbAddRequest(user_stats, db_requests, UserRequestRow(u, media_type, size_bytes))
    IN  /\ Len(db_requests) < MaxRequestRows
        /\ MayCount(u)
        /\ user_stats' = added.user_stats
        /\ db_requests' = added.db_requests
        /\ last' = [op |-> "db_add_request", user |-> u, created |-> added.raised = NoFault,
                    raised |-> added.raised, media_type |-> media_type, size |-> size_bytes]
        /\ UNCHANGED <<thresholds, calcVars, punishments, now, tasks, aggVars, pageVars, status>>

\* mutant: the gate of add_request is missing
AddRequest_NoGate(u, media_type, size_bytes) ==
    LET added == DbAddRequest(user_stats, db_requests, UserRequestRow(u, media_type, size_bytes))
        stats == added.user_stats[u]
        saved == DbSaveUserStats(added.user_stats, u,
                    [stats EXCEPT !.total_requests = @ + 1,
                                  !.total_data_usage = @ + size_bytes])
    IN  /\ Len(db_requests) < MaxRequestRows
        /\ MayCount(u)
        /\ IF added.raised # NoFault
           THEN /\ user_stats' = added.user_stats
                /\ db_requests' = added.db_requests
           ELSE /\ user_stats' = saved
                /\ db_requests' = added.db_requests
        /\ last' = [op |-> "add_request", user |-> u, created |-> added.raised = NoFault,
                    raised |-> added.raised, media_type |-> media_type, size |-> size_bytes]
        /\ UNCHANGED <<thresholds, calcVars, punishments, now, tasks, aggVars, pageVars, status>>

\* UserManager.add_request: the gate on the active punishment, the insert
\* through DatabaseManager.add_request, then lines 321-325 count the request
\* on the stats read back and save them
AddRequest(u, media_type, size_bytes) ==
    LET punishment == GetActivePunishment(punishments, u)
        added == DbAddRequest(user_stats, db_requests, UserRequestRow(u, media_type, size_bytes))
        stats == added.user_stats[u]
        saved == DbSaveUserStats(added.user_stats, u,
                    [stats EXCEPT !.total_requests = @ + 1,
                                  !.total_data_usage = @ + size_bytes])
        raised == IF punishment # NoId /\ punishments[punishment].is_active
                  THEN "ValueError" ELSE added.raised
    IN  /\ Len(db_requests) < MaxRequestRows
        /\ MayCount(u)
        /\ IF raised = "ValueError"
           THEN UNCHANGED <<user_stats, db_requests>>
           ELSE IF raised # NoFault
                THEN /\ user_stats' = added.user_stats
                     /\ db_requests' = added.db_requests
                ELSE /\ user_stats' = saved
                     /\ db_requests' = added.db_requests
        /\ last' = [op |-> "add_request", user |-> u, created |-> raised = NoFault,
                    raised |-> raised, media_type |-> media_type, size |-> size_bytes]
        /\ UNCHANGED <<thresholds, calcVars, punishments, now, tasks, aggVars, pageVars, status>>

\* the UserStats handed to create_user_stats and update_user_stats
StatsSamples ==
    [username : {GivenName}, total_data_usage : {700}, total_requests : {3},
     punishment_level : {0}, cooldown_days : {0}, request_limit : {10, 100},
     current_punishment_id : {NoId}]

\* DatabaseManager.get_user_stats: <<>> for None, else <<the UserStats>>
GetUserStats(S, u) ==
    IF u \in DOMAIN S
    THEN << [username |-> S[u].username, total_data_usage |-> S[u].total_data_usage,
             total_requests |-> S[u].total_requests,
             punishment_level |-> S[u].punishment_level,
             cooldown_days |-> S[u].cooldown_days, request_limit |-> S[u].request_limit] >>
    ELSE <<>>

\* DatabaseManager.create_user_stats: INSERT of user_id, total_requests,
\* total_data_usage, current_punishment_id and last_request_date
CreateUserStats(u, stats) ==
    LET row == [StatsDefaults EXCEPT !.total_requests = stats.total_requests,
                                     !.total_data_usage = stats.total_data_usage,
                                     !.current_punishment_id = stats.current_punishment_id]
        ok == StatsNotNull(row) /\ u \notin DOMAIN user_stats
    IN  /\ user_stats' = IF ok THEN (u :> row) @@ user_stats ELSE user_stats
        /\ last' = [op |-> "create_user_stats", user |-> u, created |-> ok,
                    raised |-> IF ok THEN NoFault ELSE "IntegrityError",
                    stats |-> stats, found |-> GetUserStats(user_stats', u)]
        /\ UNCHANGED <<storeIdle, punishments, now>>

\* DatabaseManager.update_user_stats: INSERT of user_id, total_requests,
\* total_data_usage and last_request_date, ON CONFLICT (user_id) DO UPDATE;
\* the NOT NULL columns are tested before the conflict is looked for
UpdateUserStats(u, stats) ==
    LET row == [StatsDefaults EXCEPT !.total_requests = stats.total_requests,
                                     !.total_data_usage = stats.total_data_usage]
        ok == StatsNotNull(row)
    IN  /\ user_stats' =
              IF ~ok THEN user_stats
              ELSE IF u \in DOMAIN user_stats
                   THEN [user_stats EXCEPT ![u].total_requests = stats.total_requests,
                                           ![u].total_data_usage = stats.total_data_usage]
                   ELSE (u :> row) @@ user_stats
        /\ last' = [op |-> "update_user_stats", user |-> u, created |-> FALSE,
                    raised |-> IF ok THEN NoFault ELSE "IntegrityError",
                    stats |-> stats, found |-> GetUserStats(user_stats', u)]
        /\ UNCHANGED <<storeIdle, punishments, now>>

NextRequests ==
    \/ \E limit \in LimitSamples : EnsureUserExists(RequestUser, limit)
    \/ \E level \in CreateLevels, cd \in AdminCooldowns, red \in ReductionSamples :
          AddPunishment(RequestUser, level, cd, red)
    \/ ResetPunishment(RequestUser, NoReason, NoFault)
    \/ \E media_type \in MediaTypes, size_bytes \in RequestSizes :
          DatabaseAddRequest(RequestUser, media_type, size_bytes)
    \/ \E media_type \in MediaTypes, size_bytes \in RequestSizes :
          AddRequest(RequestUser, media_type, size_bytes)
    \/ \E stats \in StatsSamples : CreateUserStats(RequestUser, stats)
    \/ \E stats \in StatsSamples : UpdateUserStats(RequestUser, stats)

SpecRequests == Init /\ [][NextRequests]_vars

\* the request gate next to the clock and the status read
NextGate ==
    \/ \E limit \in LimitSamples : EnsureUserExists(RequestUser, limit)
    \/ \E level \in CreateLevels, cd \in AdminCooldowns, red \in ReductionSamples :
          AddPunishment(RequestUser, level, cd, red)
    \/ Tick
    \/ \E size_bytes \in RequestSizes : AddRequest(RequestUser, "movie", size_bytes)
    \/ GetUserStatus(RequestUser, 0)

SpecGate == Init /\ [][NextGate]_vars

\* DatabaseManager.remove_user_punishments: DELETE FROM punishments WHERE
\* user_id = ?
DbRemoveUserPunishments(P, u) == SelectSeq(P, LAMBDA row : row.user_id # u)

\* reset_user_status lines 152-170: the UserStats handed to update_user_stats
ResetStats ==
    [username |-> "unknown", total_data_usage |-> 0, punishment_level |-> 0,
     cooldown_days |-> 0, request_limit |-> 100, total_requests |-> 0,
     current_punishment_id |-> NoId]

\* UserManager.reset_user_status: the 'remove' override, the DELETE, then
\* update_user_stats, whose INSERT names user_id, total_requests,
\* total_data_usage and last_request_date only. Each statement is committed
\* on its own, so what ran before a raising statement stays.
ResetUserStatus(u) ==
    LET current == GetActivePunishment(punishments, u)
        overridden ==
            IF current # NoId
            THEN DbUpdatePunishment(punishments, current,
                     [punishments[current] EXCEPT !.is_active = FALSE])
            ELSE punishments
        row == [StatsDefaults EXCEPT !.total_requests = ResetStats.total_requests,
                                     !.total_data_usage = ResetStats.total_data_usage]
        ok == StatsNotNull(row)
    IN  /\ punishments' = DbRemoveUserPunishments(overridden, u)
        /\ user_stats' =
              IF ~ok THEN user_stats
              ELSE IF u \in DOMAIN user_stats
                   THEN [user_stats EXCEPT ![u].total_requests = row.total_requests,
                                           ![u].total_data_usage = row.total_data_usage]
                   ELSE (u :> row) @@ user_stats
        /\ last' = [op |-> "reset_user_status", user |-> u, created |-> FALSE,
                    raised |-> IF ok THEN NoFault ELSE "IntegrityError",
                    removed |-> Len(punishments) - Len(punishments')]
        /\ UNCHANGED <<storeIdle, now>>

\* the reset next to the operations that fill the user's rows; the rows a
\* reset deleted make room for new ones, so the clock bounds the creations
NextReset ==
    \/ \E limit \in LimitSamples : EnsureUserExists(RequestUser, limit)
    \/ \E level \in CreateLevels, cd \in AdminCooldowns, red \in ReductionSamples :
          now < MaxClock /\ AddPunishment(RequestUser, level, cd, red)
    \/ \E total \in ReadUsages :
         \E cur \in PassedCurrent(RequestUser, total) :
            now < MaxClock /\ ProcessUserBehavior(RequestUser, total, cur, 0)
    \/ \E size_bytes \in RequestSizes : AddRequest(RequestUser, "movie", size_bytes)
    \/ ResetUserStatus(RequestUser)

SpecReset == Init /\ [][NextReset]_vars

----------------------------------------------------------------------------
(* Claims about the punishment store, under Spec and SpecQuota *)

UserRows(P, u) == {i \in PunishmentIds(P) : P[i].user_id = u}

\* the level get_active_punishment reports, NoLevel without an active row
ActiveLevel(P, u) ==
    IF GetActivePunishment(P, u) = NoId THEN NoLevel
    ELSE P[GetActivePunishment(P, u)].level

\* C1: a usage recalculation that is handed the user's currently active
\* punishment never lowers the level of the active punishment that
\* get_active_punishment returns; only reset and override steps can.
C1_RecalculationNeverLowers ==
    [][\A u \in Users :
        (\E total \in ProcessUsages :
            ProcessUserBehavior(u, total, GetActivePunishment(punishments, u), 0))
        => ActiveLevel(punishments', u) >= ActiveLevel(punishments, u)]_vars

C1_Witness ==
    /\ last.op = "process_user_behavior"
    /\ last.total = GB(600)
    /\ Cardinality(UserRows(punishments, last.user)) = 2
    /\ ActiveLevel(punishments, last.user) = SEVERE
    /\ punishments[GetActivePunishment(punishments, last.user)].data_usage = GB(600)

\* the manager's paths that create a punishment
ManagerCreated(u) ==
    /\ last.user = u
    /\ last.op \in {"create_punishment", "process_user_behavior", "override_punishment"}
    /\ last.created

\* C5: after two punishments were created for one user one after the other
\* through the manager, exactly one of the user's rows is active, and it is
\* the second one created.
C5_SecondCreationIsOnlyActive ==
    [][\A u \in Users :
        (ManagerCreated(u) /\ ManagerCreated(u)' /\ Len(punishments') = Len(punishments) + 1)
        => ActiveIds(punishments', u) = {Len(punishments')}]_vars

\* C7: the persisted punishment_level and cooldown_days of a user equal
\* those of the user's active punishment, and are 0 without one.
C7_StatsReflectActive ==
    \A u \in DOMAIN user_stats :
        LET a == GetActivePunishment(punishments, u)
        IN  IF a = NoId
            THEN user_stats[u].punishment_level = 0 /\ user_stats[u].cooldown_days = 0
            ELSE /\ user_stats[u].punishment_level = punishments[a].level
                 /\ user_stats[u].cooldown_days = punishments[a].cooldown_days

\* C8: after PunishmentManager.create_punishment for a user with a stats row
\* the persisted request_limit is at least 5, whatever the prior limit and
\* the reduction; from limit 10 a reduction of 50 or more gives exactly 5.
C8_QuotaFloor ==
    (last.op = "create_punishment" /\ last.user \in DOMAIN user_stats) =>
        /\ user_stats[last.user].request_limit >= 5
        /\ (last.prior_limit = 10 /\ last.reduction >= 50
                => user_stats[last.user].request_limit = 5)

C8_Witness ==
    /\ last.op = "create_punishment"
    /\ last.user \in DOMAIN user_stats
    /\ last.prior_limit = 10
    /\ last.reduction = 60
    /\ user_stats[last.user].request_limit = 5

\* C9: a user without prior punishment and with request_limit 100 whose
\* window usage of 1100GB is processed ends with request_limit 90.
C9_SevereBreachReducesQuota ==
    [][\A u \in Users :
        ( /\ last'.op = "process_user_behavior"
          /\ last'.user = u
          /\ last'.total = GB(1100)
          /\ UserRows(punishments, u) = {}
          /\ u \in DOMAIN user_stats
          /\ user_stats[u].request_limit = 100 )
        => user_stats'[u].request_limit = 90]_vars

\* C6: however two concurrent add_punishment calls for one user interleave,
\* no reachable state has two active rows of that user.
C6_NoTwoActiveUnderRace ==
    \A u \in Users : Cardinality(ActiveIds(punishments, u)) <= 1

----------------------------------------------------------------------------
(* Claims about calculate_user_requests_size, under SpecAgg *)

RECURSIVE SumResolved(_, _)
SumResolved(truth, n) ==
    IF n = 0 THEN 0
    ELSE SumResolved(truth, n - 1) + (IF truth[n].failed THEN 0 ELSE truth[n].size)

FailureMessages ==
    {"API request failed", "Movie with TMDB ID not found", "Series with TMDB ID not found",
     "Series with TVDB ID not found", "Unknown media type"}

MarkedFailed(i) ==
    /\ agg.processed[i].status \in FailureMessages
    /\ agg.processed[i].status # StatusText[agg.requests[i].status]

C11_NeverAborts == agg.pc # "aborted"

----------------------------------------------------------------------------
(* Claims about get_all_user_requests, under SpecPages *)

Unfiltered == pg.start_date = NoDate /\ pg.end_date = NoDate

\* the number N of full pages the broker holds
FullPages == Len(broker.items) \div DefaultPageSize

\* C12: without date filters the pages are requested in the order 1, 2, ...,
\* page k+1 only after page k has completed, never more than N+1 of them for
\* a broker with N full pages and a short last page; the call ends after
\* exactly N+1 fetches and returns the concatenation of the pages' items.
C12_PagesInOrder ==
    (pg.pc # "idle" /\ Unfiltered) =>
        /\ \A k \in 1 .. Len(pg.issued) : pg.issued[k] = k
        /\ \A k \in 1 .. Len(pg.completed) : pg.completed[k] = k
        /\ Len(pg.issued) - Len(pg.completed) = (IF pg.pc = "await" THEN 1 ELSE 0)
        /\ Len(pg.issued) <= FullPages + 1
        /\ (pg.pc = "done" =>
              /\ Len(pg.issued) = FullPages + 1
              /\ pg.all_requests = broker.items)

C12_Witness ==
    /\ pg.pc = "done"
    /\ Unfiltered
    /\ Len(broker.items) = 2 * DefaultPageSize + 1
    /\ pg.issued = <<1, 2, 3>>
    /\ Len(pg.all_requests) = 2 * DefaultPageSize + 1

InWindow(request) == KeptByFilter(request, pg.start_date, pg.end_date)

\* C13: with a window, the call returns every request of the broker whose
\* createdAt lies inside the window and none outside it, on whatever page
\* the request sits.
C13_WindowComplete ==
    pg.pc = "done" => pg.all_requests = SelectSeq(broker.items, InWindow)

----------------------------------------------------------------------------
(* Claims about reset and override, under SpecAdmin *)

ResetWithoutFault ==
    \E reason \in ResetReasons : ResetPunishment(AdminUser, reason, NoFault)

\* C14: reset_punishment on a user without active punishment returns True
\* and changes neither punishments nor user_stats; a reset that follows a
\* reset also returns True and changes nothing.
C14_ResetWithoutActive ==
    [][ /\ (ResetWithoutFault /\ GetActivePunishment(punishments, AdminUser) = NoId)
            => (last'.returned /\ punishments' = punishments /\ user_stats' = user_stats)
        /\ (ResetWithoutFault /\ last.op = "reset_punishment" /\ last.returned)
            => (last'.returned /\ punishments' = punishments /\ user_stats' = user_stats)
      ]_vars

C14_Witness ==
    /\ last.op = "reset_punishment"
    /\ last.fault = NoFault
    /\ ~last.found
    /\ last.returned
    /\ \E i \in PunishmentIds(punishments) :
          ~punishments[i].is_active /\ punishments[i].reason = "reset"

\* C15: reset_punishment returns False when the lookup or the deactivation
\* fails, and True only when the lookup found nothing or the deactivation
\* completed.
C15_ResetReportsFailure ==
    last.op = "reset_punishment" =>
        /\ last.fault = "lookup" => ~last.returned
        /\ (last.found /\ last.fault \in {"deactivate", "commit"}) => ~last.returned
        /\ last.returned =>
              /\ last.fault = NoFault \/ ~last.found
              /\ ActiveIds(punishments, last.user) = {}

C15_Witness ==
    /\ last.op = "reset_punishment"
    /\ last.fault = "deactivate"
    /\ last.found
    /\ ~last.returned
    /\ ActiveIds(punishments, last.user) # {}

\* C16: after override_punishment 'remove' get_active_punishment returns
\* None for the user, and the user has as many punishment rows as before.
C16_RemoveLeavesNoneActive ==
    [][(\E drift \in Drifts : OverridePunishment(AdminUser, "remove", drift))
        => /\ GetActivePunishment(punishments', AdminUser) = NoId
           /\ Cardinality(UserRows(punishments', AdminUser))
                = Cardinality(UserRows(punishments, AdminUser))]_vars

\* C17: override_punishment 'escalate' creates an active SEVERE punishment
\* with cooldown_days 7, end_date = start_date + 7 days, request_reduction 50
\* and data_usage 0, and get_active_punishment returns it afterwards.
C17_EscalateCreatesSevereWeek ==
    [][(\E drift \in Drifts : OverridePunishment(AdminUser, "escalate", drift))
        => LET a == GetActivePunishment(punishments', AdminUser)
           IN  /\ a = Len(punishments')
               /\ Len(punishments') = Len(punishments) + 1
               /\ punishments'[a].is_active
               /\ punishments'[a].level = SEVERE
               /\ punishments'[a].cooldown_days = 7
               /\ punishments'[a].end_date = punishments'[a].start_date + Days(7)
               /\ punishments'[a].request_reduction = 50
               /\ punishments'[a].data_usage = 0]_vars

----------------------------------------------------------------------------
(* Claims about UserStatus, under SpecStatus *)

\* what the claims call punished: a punishment is present, its is_active
\* flag is set, and its end date is strictly later than the time t
PresentActiveUnexpired(current_punishment, t) ==
    /\ current_punishment # <<>>
    /\ current_punishment[1].is_active
    /\ current_punishment[1].end_date > t

\* C18: is_punished is true exactly when current_punishment is present,
\* active and ends strictly after the current time; an active but expired
\* punishment gives is_punished false and remaining_cooldown_days 0.
C18_PunishedIffActiveUnexpired ==
    status.pc = "read" =>
        /\ status.is_punished[1]
              <=> PresentActiveUnexpired(status.current_punishment, status.read_at)
        /\ ( /\ status.current_punishment # <<>>
             /\ status.current_punishment[1].is_active
             /\ status.current_punishment[1].end_date <= status.read_at )
              => (~status.is_punished[1] /\ status.remaining_cooldown_days[1] = 0)

C18_Witness ==
    /\ status.pc = "read"
    /\ status.current_punishment # <<>>
    /\ status.current_punishment[1].is_active
    /\ status.current_punishment[1].end_date <= status.read_at
    /\ status.is_punished = <<FALSE>>
    /\ status.remaining_cooldown_days = <<0>>

\* C19: current_request_limit is 100 for a user that is not punished and
\* max(0, 100 - request_reduction) of the punishment for a punished one; it
\* is never negative.
C19_LimitFromBaseline ==
    status.pc = "read" =>
        /\ status.current_request_limit[1] >= 0
        /\ status.current_request_limit[1] =
              IF PresentActiveUnexpired(status.current_punishment, status.read_at)
              THEN Max(0, 100 - status.current_punishment[1].request_reduction)
              ELSE 100

C19_Witness ==
    /\ status.pc = "read"
    /\ PresentActiveUnexpired(status.current_punishment, status.read_at)
    /\ status.current_punishment[1].request_reduction = 150
    /\ status.current_request_limit = <<0>>

----------------------------------------------------------------------------
(* Claims about the status reads, under SpecReads *)

StatusRead == GetUserStatus(AdminUser, 0) \/ ListPunishedUsers

\* C20: get_user_status and list_punished_users change no punishment row;
\* a punishment is deactivated only by a reset, an override or a creation
\* through add_punishment, so an expired one stays active in storage while
\* the status read reports the user as not punished.
C20_ExpiryOnlyAtRead ==
    [][ /\ StatusRead => punishments' = punishments
        /\ \A i \in PunishmentIds(punishments) :
              (punishments[i].is_active /\ ~punishments'[i].is_active)
                 => last'.op \in {"reset_punishment", "override_punishment", "add_punishment"}
        /\ ( /\ GetUserStatus(AdminUser, 0)
             /\ status'.pc = "get_user_status"
             /\ GetActivePunishment(punishments, AdminUser) # NoId
             /\ punishments[GetActivePunishment(punishments, AdminUser)].end_date <= now )
              => status'.is_punished = <<FALSE>>
      ]_vars

C20_Witness ==
    /\ status.pc = "get_user_status"
    /\ last.op = "get_user_status"
    /\ status.is_punished = <<FALSE>>
    /\ GetActivePunishment(punishments, AdminUser) # NoId
    /\ punishments[GetActivePunishment(punishments, AdminUser)].is_active
    /\ punishments[GetActivePunishment(punishments, AdminUser)].end_date <= now

\* C21: get_user_status for a user without a user_stats row returns a status
\* (it does not raise), leaves a zeroed stats row for the user behind, and
\* the status carries no punishment.
C21_MissingRowIsCreated ==
    [][ (GetUserStatus(AdminUser, 0) /\ AdminUser \notin DOMAIN user_stats)
          => /\ status'.pc = "get_user_status"
             /\ AdminUser \in DOMAIN user_stats'
             /\ status'.current_punishment = <<>>
      ]_vars

\* C22: every user list_punished_users returns is punished when the call
\* reads the clock: the punishment its stats row refers to exists, is
\* active and ends later than now.
C22_ListedArePunished ==
    [][ ListPunishedUsers =>
          \A u \in status'.users :
             /\ u \in DOMAIN user_stats
             /\ user_stats[u].current_punishment_id \in PunishmentIds(punishments)
             /\ punishments[user_stats[u].current_punishment_id].is_active
             /\ now < punishments[user_stats[u].current_punishment_id].end_date
      ]_vars

C22_Witness ==
    /\ last.op = "list_punished_users"
    /\ status.pc = "list_punished_users"
    /\ AdminUser \in status.users
    /\ punishments[user_stats[AdminUser].current_punishment_id].is_active
    /\ now > 0

----------------------------------------------------------------------------
(* Claims about the identifier cache, under SpecLookups and SpecCache *)

\* C23: with calls made one after the other, a get_tv_identifiers call that
\* fails (transport error or a status other than 200) returns None and
\* leaves the cache unchanged, so the next call for the same id asks the
\* upstream again; a call that succeeds leaves its identifiers in the cache,
\* every call for a cached id returns the cached identifiers without an
\* upstream call, and no step removes or changes a cache entry.
C23_CacheContract ==
    [][ /\ \A reply \in LookupReplies :
              ( /\ LookupReply(FirstCaller, reply)
                /\ lookups.calls[FirstCaller].kind = "tv" )
                 => IF reply.kind # "ok"
                    THEN /\ corr_cache' = corr_cache
                         /\ ~lookups'.calls[FirstCaller].found
                    ELSE /\ lookups'.calls[FirstCaller].found
                         /\ lookups'.calls[FirstCaller].tvdb_id = reply.tvdb_id
                         /\ corr_cache'[lookups.calls[FirstCaller].tmdb_id] = reply.tvdb_id
        /\ \A kind \in LookupKinds, tmdb_id \in LookupIds :
              LookupCall(FirstCaller, kind, tmdb_id)
                 => /\ ( /\ lookups.calls[FirstCaller].pc = "returned"
                         /\ lookups.calls[FirstCaller].kind = "tv"
                         /\ lookups.calls[FirstCaller].tmdb_id = tmdb_id
                         /\ ~lookups.calls[FirstCaller].found )
                       => /\ lookups'.calls[FirstCaller].pc = "awaiting"
                          /\ lookups'.calls[FirstCaller].upstream
                    /\ tmdb_id \in DOMAIN corr_cache
                       => /\ lookups'.calls[FirstCaller].pc = "returned"
                          /\ ~lookups'.calls[FirstCaller].upstream
                          /\ lookups'.calls[FirstCaller].found
                          /\ lookups'.calls[FirstCaller].tvdb_id = corr_cache[tmdb_id]
        /\ \A tmdb_id \in DOMAIN corr_cache :
              /\ tmdb_id \in DOMAIN corr_cache'
              /\ corr_cache'[tmdb_id] = corr_cache[tmdb_id]
      ]_vars

\* the third call is answered from the cache after one call failed and one
\* succeeded
C23_Witness ==
    /\ lookups.started = 3
    /\ Len(lookups.written) = 1
    /\ lookups.written[1] = [kind |-> "tv", tmdb_id |-> 1, identifiers |-> 71]
    /\ lookups.calls[FirstCaller] =
          [pc |-> "returned", kind |-> "tv", tmdb_id |-> 1, upstream |-> FALSE,
           ok |-> FALSE, found |-> TRUE, tvdb_id |-> 71]
    /\ DOMAIN corr_cache = {1}

\* the cache writes for one id, in their order
WritesFor(tmdb_id) == SelectSeq(lookups.written, LAMBDA w : w.tmdb_id = tmdb_id)

\* C24: with get_tv_identifiers calls overlapping in every possible way, the
\* cache holds for every id at most one entry, absent while no response for
\* the id was written and equal to the response written last otherwise (so
\* the calls for one id never lose or change the entry of another id); and
\* every caller that got a 200 response returns the identifiers of its own
\* response.
C24_OverlappingLookups ==
    /\ [](\A tmdb_id \in LookupIds :
             IF WritesFor(tmdb_id) = <<>>
             THEN tmdb_id \notin DOMAIN corr_cache
             ELSE /\ tmdb_id \in DOMAIN corr_cache
                  /\ corr_cache[tmdb_id] =
                        WritesFor(tmdb_id)[Len(WritesFor(tmdb_id))].identifiers)
    /\ [][ \A c \in Callers, reply \in LookupReplies :
              (LookupReply(c, reply) /\ reply.kind = "ok")
                 => /\ lookups'.calls[c].pc = "returned"
                    /\ lookups'.calls[c].found
                    /\ lookups'.calls[c].tmdb_id = lookups.calls[c].tmdb_id
                    /\ lookups'.calls[c].tvdb_id = reply.tvdb_id
         ]_vars

\* two callers asked for the same id on the empty cache, both went upstream,
\* got different responses, and the cache holds the later one
C24_Witness ==
    /\ lookups.started = 2
    /\ \A c \in {1, 2} :
          /\ lookups.calls[c].pc = "returned"
          /\ lookups.calls[c].upstream
          /\ lookups.calls[c].ok
          /\ lookups.calls[c].tmdb_id = 1
    /\ lookups.calls[1].tvdb_id = 71
    /\ lookups.calls[2].tvdb_id = 72
    /\ lookups.written = << [kind |-> "tv", tmdb_id |-> 1, identifiers |-> 72],
                            [kind |-> "tv", tmdb_id |-> 1, identifiers |-> 71] >>
    /\ corr_cache[1] = 71

----------------------------------------------------------------------------
(* Claims about calculate_punishment, under SpecPunish *)

\* the level calculate_punishment determines for its arguments
DeterminedLevel(total_data_bytes, current_punishment) ==
    DeterminePunishmentLevel(thresholds, total_data_bytes,
        IF current_punishment # <<>> /\ current_punishment[1].is_active
        THEN current_punishment[1].level ELSE NoLevel)

\* C25: calculate_punishment returns None exactly when the determined level
\* is NONE; otherwise the punishment returned is active, is the given
\* user's, has the determined level with the cooldown_days and
\* request_reduction configured for it, data_usage equal to
\* total_data_bytes, and end_date equal to start_date plus cooldown_days.
C25_CalculatedPunishment ==
    [][ \A total \in PunishUsages, current \in PunishCurrents, drift \in Drifts :
          CalculateCall(PunishUser, total, current, drift)
             => LET level == DeterminedLevel(total, current)
                    result == last'.result
                IN  /\ (result = <<>>) <=> (level = NONE)
                    /\ result # <<>>
                       => /\ result[1].is_active
                          /\ result[1].user_id = PunishUser
                          /\ result[1].level = level
                          /\ result[1].cooldown_days = DefaultCooldowns[level]
                          /\ result[1].request_reduction = DefaultRequestLimits[level]
                          /\ result[1].data_usage = total
                          /\ result[1].end_date =
                                result[1].start_date + Days(result[1].cooldown_days)
      ]_vars

\* C26: the usage reaches the threshold of the level of every punishment
\* calculate_punishment returns.
C26_ThresholdExceeded ==
    (last.op = "calculate_punishment" /\ last.result # <<>>)
       => last.total >= thresholds[last.result[1].level]

----------------------------------------------------------------------------
(* Claims about the entries calculate_user_requests_size returns, under SpecAgg *)

\* the sum of size_bytes over the first n returned entries
RECURSIVE SumSizeBytes(_, _)
SumSizeBytes(processed, n) ==
    IF n = 0 THEN 0 ELSE SumSizeBytes(processed, n - 1) + processed[n].size_bytes

----------------------------------------------------------------------------
(* Claims about requests and user statistics, under SpecRequests *)

\* C28: UserManager.add_request for a user whose active-punishment lookup
\* returns a punishment with is_active true raises ValueError and writes
\* nothing: no request row is inserted and user_stats is unchanged.
C28_GateRaisesWithoutWrite ==
    [][ \A media_type \in MediaTypes, size_bytes \in RequestSizes :
          ( /\ AddRequest(RequestUser, media_type, size_bytes)
            /\ GetActivePunishment(punishments, RequestUser) # NoId
            /\ punishments[GetActivePunishment(punishments, RequestUser)].is_active )
             => /\ last'.raised = "ValueError"
                /\ db_requests' = db_requests
                /\ user_stats' = user_stats
      ]_vars

\* a punished user with a stats row and an earlier request was turned away
C28_Witness ==
    /\ last.op = "add_request"
    /\ last.raised = "ValueError"
    /\ RequestUser \in DOMAIN user_stats
    /\ Len(db_requests) = 1
    /\ GetActivePunishment(punishments, RequestUser) # NoId

\* C29: DatabaseManager.add_request inserts one request row; for a user
\* with a stats row it raises total_requests by 1 and total_data_usage by
\* size_bytes and leaves punishment_level, cooldown_days and request_limit
\* alone; for a user without one it creates the row with total_requests 1
\* and total_data_usage = size_bytes.
C29_RequestCounted ==
    [][ \A media_type \in MediaTypes, size_bytes \in RequestSizes :
          DatabaseAddRequest(RequestUser, media_type, size_bytes)
             => /\ Len(db_requests') = Len(db_requests) + 1
                /\ RequestUser \in DOMAIN user_stats'
                /\ IF RequestUser \in DOMAIN user_stats
                   THEN user_stats'[RequestUser] =
                           [user_stats[RequestUser] EXCEPT
                               !.total_requests = @ + 1,
                               !.total_data_usage = @ + size_bytes]
                   ELSE /\ user_stats'[RequestUser].total_requests = 1
                        /\ user_stats'[RequestUser].total_data_usage = size_bytes
      ]_vars

\* C30: after create_user_stats(stats) for a new user get_user_stats
\* returns the username, total_requests, total_data_usage and request_limit
\* given; after update_user_stats with other totals it returns the new
\* totals with username and request_limit preserved.
C30_StatsRoundTrip ==
    [][ \A stats \in StatsSamples :
          /\ ( CreateUserStats(RequestUser, stats) /\ RequestUser \notin DOMAIN user_stats )
                => /\ last'.found # <<>>
                   /\ last'.found[1].username = stats.username
                   /\ last'.found[1].total_requests = stats.total_requests
                   /\ last'.found[1].total_data_usage = stats.total_data_usage
                   /\ last'.found[1].request_limit = stats.request_limit
          /\ ( UpdateUserStats(RequestUser, stats) /\ RequestUser \in DOMAIN user_stats )
                => /\ last'.found # <<>>
                   /\ last'.found[1].total_requests = stats.total_requests
                   /\ last'.found[1].total_data_usage = stats.total_data_usage
                   /\ last'.found[1].username = user_stats[RequestUser].username
                   /\ last'.found[1].request_limit = user_stats[RequestUser].request_limit
      ]_vars

----------------------------------------------------------------------------
(* Claims about deactivation and recalculation, under Spec and SpecReads *)

\* C31: after a reset_punishment that returned True (its deactivate_punishment
\* included) get_active_punishment returns None for the user, however many
\* active rows the user had, and the rows of every other user are as before.
C31_ResetLeavesNoneActive ==
    [][ \A u \in Users :
          (ResetPunishment(u, NoReason, NoFault) /\ last'.returned)
             => /\ GetActivePunishment(punishments', u) = NoId
                /\ ActiveIds(punishments', u) = {}
                /\ Len(punishments') = Len(punishments)
                /\ \A i \in PunishmentIds(punishments) :
                      punishments[i].user_id # u => punishments'[i] = punishments[i]
      ]_vars

\* a reset deactivated two active rows of one user at once
C31_Witness ==
    /\ last.op = "reset_punishment"
    /\ last.returned
    /\ last.deactivated = 2
    /\ GetActivePunishment(punishments, last.user) = NoId

\* C32: a usage recalculation with a window usage below every threshold
\* creates no punishment record, whatever current punishment is passed.
C32_BelowThresholdsCreatesNothing ==
    [][ \A u \in Users, total \in ProcessUsages :
          \A cur \in PassedCurrent(u, total) :
             ( /\ ProcessUserBehavior(u, total, cur, 0)
               /\ \A level \in WARNING .. MAXIMUM : total < thresholds[level] )
                => punishments' = punishments
      ]_vars

----------------------------------------------------------------------------
(* Claims about the quota, under SpecQuota *)

\* C33: after PunishmentManager.create_punishment the persisted
\* request_limit is at most its value before the call.
C33_QuotaNeverRaised ==
    (last.op = "create_punishment" /\ last.user \in DOMAIN user_stats)
       => user_stats[last.user].request_limit <= last.prior_limit

----------------------------------------------------------------------------
(* Claims about the request gate and the request totals, under SpecGate *)

\* C34: UserManager.add_request raises ValueError exactly when the status
\* get_user_status builds for the user at that time has is_punished true.
C34_GateAgreesWithStatus ==
    [][ \A size_bytes \in RequestSizes :
          AddRequest(RequestUser, "movie", size_bytes)
             => LET current == GetActivePunishment(punishments, RequestUser)
                    punishment == IF current = NoId THEN <<>> ELSE <<punishments[current]>>
                IN  (last'.raised = "ValueError") <=> IsPunished(punishment, now)
      ]_vars

\* C35: a successful UserManager.add_request of size s for a user with a
\* stats row raises the persisted total_requests by 1 and total_data_usage
\* by s, so the totals equal the number and the summed sizes of the user's
\* request rows when they did before.
C35_RequestCountedOnce ==
    [][ \A media_type \in MediaTypes, size_bytes \in RequestSizes :
          ( /\ AddRequest(RequestUser, media_type, size_bytes)
            /\ last'.raised = NoFault
            /\ RequestUser \in DOMAIN user_stats )
             => /\ user_stats'[RequestUser].total_requests =
                      user_stats[RequestUser].total_requests + 1
                /\ user_stats'[RequestUser].total_data_usage =
                      user_stats[RequestUser].total_data_usage + size_bytes
      ]_vars

\* the cache writes that get_tv_identifiers made for one id
TvWritesFor(tmdb_id) ==
    SelectSeq(lookups.written, LAMBDA w : w.tmdb_id = tmdb_id /\ w.kind = "tv")

\* C36: the result of get_tv_identifiers(id) does not depend on earlier
\* get_movie_identifiers calls: while no get_tv_identifiers call has resolved
\* the id, a get_tv_identifiers call asks the upstream as on a fresh cache,
\* and a call answered from the cache returns the tvdb_id that the last
\* get_tv_identifiers resolution of the id obtained.
C36_TvIndependentOfMovie ==
    [][ \A tmdb_id \in LookupIds :
          LookupCall(FirstCaller, "tv", tmdb_id)
             => IF TvWritesFor(tmdb_id) = <<>>
                THEN /\ lookups'.calls[FirstCaller].pc = "awaiting"
                     /\ lookups'.calls[FirstCaller].upstream
                ELSE lookups'.calls[FirstCaller].tvdb_id =
                        TvWritesFor(tmdb_id)[Len(TvWritesFor(tmdb_id))].identifiers
      ]_vars

\* C37: a correlation miss is never remembered: whatever lookups failed
\* before, a tv request whose series has a tvdb_id at the metadata service
\* and a size at the library manager when it is processed is resolved: it
\* gets that size, keeps its status, and its size is added to the total.
C37_MissNotRemembered ==
    [][ \A env \in Environments :
          ( /\ AggStep(env)
            /\ agg.requests[Len(agg.processed) + 1].mediaType = "tv"
            /\ env.tmdb = [kind |-> "ok", tvdb_id |-> 71]
            /\ env.sonarr.kind = "found" )
             => /\ Len(agg'.processed) = Len(agg.processed) + 1
                /\ agg'.processed[Len(agg'.processed)].size_bytes = env.sonarr.size
                /\ agg'.processed[Len(agg'.processed)].status = "2"
                /\ agg'.total_size = agg.total_size + env.sonarr.size
      ]_vars

\* C38: list_punished_users is complete: every user with an active
\* punishment whose end_date is later than now is in its result, whichever
\* operation created the punishment.
C38_ListIsComplete ==
    [][ ListPunishedUsers =>
          \A u \in Users :
             (\E i \in ActiveIds(punishments, u) : now < punishments[i].end_date)
                => u \in status'.users
      ]_vars

----------------------------------------------------------------------------
(* Claims about UserManager.reset_user_status, under SpecReset *)

\* C39: after reset_user_status for a user with a stats row the user has no
\* punishment rows at all and the persisted stats are fully reset:
\* total_requests 0, total_data_usage 0, punishment_level 0, cooldown_days 0
\* and request_limit 100.
C39_ResetUserStatusResetsAll ==
    [][ ( /\ ResetUserStatus(RequestUser)
          /\ RequestUser \in DOMAIN user_stats )
           => /\ \A i \in PunishmentIds(punishments') :
                    punishments'[i].user_id # RequestUser
              /\ user_stats'[RequestUser].total_requests = 0
              /\ user_stats'[RequestUser].total_data_usage = 0
              /\ user_stats'[RequestUser].punishment_level = 0
              /\ user_stats'[RequestUser].cooldown_days = 0
              /\ user_stats'[RequestUser].request_limit = 100
      ]_vars

====
